---------------------------- MODULE Spec2Model ----------------------------
(***************************************************************************)
(* A model of the tpc-rust compiler pipeline (src/src/main.rs):            *)
(*   Lexer::lex -> Abstracter::tokenize -> Parser::parse -> Generator.     *)
(* Source text is a sequence of one-character strings (ASCII only).  Every *)
(* panic!, todo!, unreachable!, unwrap on Err/None and expect on Err/None  *)
(* of the source is the fatal error of the model: phase = "panic".         *)
(***************************************************************************)
EXTENDS Integers, Sequences, FiniteSets, TLC

VARIABLES
    buffer,            \* Lexer.buffer
    current_position,  \* Lexer.current_position
    is_line_start,     \* the local is_line_start of Lexer::lex
    words,             \* the local words of Lexer::lex, then Abstracter.words
    current_word,      \* Abstracter.current_word
    tokens,            \* Abstracter.tokens, then Parser.tokens
    current_token,     \* Parser.current_token
    nodes,             \* Parser.nodes, then Generator.nodes
    scope,             \* the Scope of main
    writer,            \* the lines written to the BufWriter of the .asm file
    stdout,            \* the lines printed to the standard output
    node_cursor,       \* the nodes Generator::generate has iterated over
    overflow_checks,   \* the build traps integer overflow (TRUE) or wraps (FALSE)
    mode,              \* the RunMode of main: "Object" or "Linked"
    commands,          \* the external commands main has run, with their outcomes
    phase,             \* where main() is: lex, tokenize, parse, generate, generated,
                       \* assembled, linked, done, panic
    fault              \* the stage whose fatal error ended the run ("" if none)

vars == <<buffer, current_position, is_line_start, words, current_word,
          tokens, current_token, nodes, scope, writer, stdout, node_cursor,
          overflow_checks, mode, commands, phase, fault>>

(***************************************************************************)
(* Characters                                                              *)
(***************************************************************************)
NoChar == ""     \* Option::None of Lexer::peek
TAB == "\t"
NL == "\n"
QUOTE == "\""

Letters == {"a","b","c","d","e","f","g","h","i","j","k","l","m",
            "n","o","p","q","r","s","t","u","v","w","x","y","z"}
Digits == {"0","1","2","3","4","5","6","7","8","9"}

is_alphabetic(c) == c \in Letters
is_numeric(c) == c \in Digits
is_alphanumeric(c) == c \in Letters \cup Digits
is_whitespace(c) == c \in {" ", TAB, NL, "\r"}

(***************************************************************************)
(* Words (enum Word)                                                       *)
(***************************************************************************)
Word(kind) == [k |-> kind, v |-> <<>>, n |-> 0]
WordName(name) == [k |-> "Name", v |-> name, n |-> 0]
WordNumber(value) == [k |-> "Number", v |-> value, n |-> 0]
WordStringLiteral(string) == [k |-> "StringLiteral", v |-> string, n |-> 0]
WordOpeningTab(count) == [k |-> "OpeningTab", v |-> <<>>, n |-> count]

\* The match of Lexer::lex on the identifier text.
KeywordTable ==
    { <<<<"a","l","e">>, "Ale">>,
      <<<<"s","i","n">>, "Sin">>,
      <<<<"a">>, "A">>,
      <<<<"o">>, "O">>,
      <<<<"e">>, "E">>,
      <<<<"e","n">>, "En">>,
      <<<<"k","a","m","a">>, "Kama">>,
      <<<<"l","i">>, "Li">>,
      <<<<"n","a","n","p","a">>, "Nanpa">>,
      <<<<"s","i","t","e","l","e","n">>, "Sitelen">>,
      <<<<"s","u","l","i">>, "Suli">>,
      <<<<"l","i","l","i">>, "Lili">>,
      <<<<"t","e","l","o">>, "Telo">>,
      <<<<"s","i","g","n","e","d">>, "Signed">>,
      <<<<"u","n","s","i","g","n","e","d">>, "Unsigned">>,
      <<<<"l","a">>, "La">>,
      <<<<"a","n","t","e">>, "Ante">>,
      <<<<"t","e","n","p","o">>, "Tenpo">>,
      <<<<"p","i","n","i">>, "Pini">>,
      <<<<"a","w","e","n">>, "Awen">>,
      <<<<"l","i","n","j","a">>, "Linja">>,
      <<<<"a","s","e","n">>, "Asen">>,
      <<<<"s","a","m","a">>, "Sama">>,
      <<<<"p","a","l","i">>, "Pali">>,
      <<<<"k","e","p","e","k","e","n">>, "Kepeken">>,
      <<<<"n","i">>, "Ni">>,
      <<<<"w","e","k","a">>, "Weka">>,
      <<<<"t","u">>, "Tu">>,
      <<<<"w","a","n">>, "Wan">>,
      <<<<"l","u","k","a">>, "Luka">>,
      <<<<"p","a","n","a">>, "Pana">>,
      <<<<"p","i">>, "Pi">> }

KeywordWord(name) ==
    IF \E p \in KeywordTable : p[1] = name
    THEN Word((CHOOSE p \in KeywordTable : p[1] = name)[2])
    ELSE WordName(name)

\* The match of Lexer::lex on a character that is none of the other classes.
PunctuationTable ==
    { <<";", "Semicolon">>, <<"(", "OpenParenthesis">>,
      <<")", "CloseParenthesis">>, <<",", "Comma">>, <<":", "Colon">>,
      <<"=", "Equals">>, <<"<", "LessThan">>, <<">", "GreaterThan">>,
      <<"+", "Plus">>, <<"-", "Minus">>, <<"*", "Star">>,
      <<".", "Period">>, <<"/", "ForwardSlash">> }

IsPunctuation(c) == \E p \in PunctuationTable : p[1] = c
PunctuationWord(c) == Word((CHOOSE p \in PunctuationTable : p[1] = c)[2])

(***************************************************************************)
(* Lexer                                                                   *)
(***************************************************************************)
\* Lexer::peek at a 0-based position.
LexPeek(buf, pos) == IF pos < Len(buf) THEN buf[pos + 1] ELSE NoChar

Slice(buf, from, to) == SubSeq(buf, from + 1, to)

\* The inner loops of Lexer::lex: the position after the run starting at pos.
RECURSIVE ScanName(_, _)
ScanName(buf, pos) ==
    LET c == LexPeek(buf, pos)
    IN IF c = NoChar \/ ~(is_alphanumeric(c) \/ c = "_") THEN pos
       ELSE ScanName(buf, pos + 1)

RECURSIVE ScanNumber(_, _)
ScanNumber(buf, pos) ==
    LET c == LexPeek(buf, pos)
    IN IF c = NoChar \/ ~is_alphanumeric(c) THEN pos
       ELSE ScanNumber(buf, pos + 1)

RECURSIVE ScanString(_, _)
ScanString(buf, pos) ==
    LET c == LexPeek(buf, pos)
    IN IF c = NoChar \/ c = QUOTE THEN pos
       ELSE ScanString(buf, pos + 1)

\* The tab loop of Lexer::lex left after one tab.
ScanTabs_Mut(buf, pos) == pos + 1

RECURSIVE ScanTabs(_, _)
ScanTabs(buf, pos) ==
    LET c == LexPeek(buf, pos)
    IN IF c = NoChar \/ c # TAB THEN pos
       ELSE ScanTabs(buf, pos + 1)

\* One iteration of the while loop of Lexer::lex, as a record:
\* pos, line_start, emit (the words pushed), panic.
LexIteration(buf, pos, line_start) ==
    LET c == LexPeek(buf, pos)
    IN IF is_alphabetic(c) \/ c = "_" THEN
           LET to == ScanName(buf, pos)
           IN [pos |-> to, line_start |-> FALSE,
               emit |-> <<KeywordWord(Slice(buf, pos, to))>>, panic |-> FALSE]
       ELSE IF is_numeric(c) THEN
           LET to == ScanNumber(buf, pos)
           IN [pos |-> to, line_start |-> FALSE,
               emit |-> <<WordNumber(Slice(buf, pos, to))>>, panic |-> FALSE]
       ELSE IF c = QUOTE THEN
           LET to == ScanString(buf, pos)
           IN [pos |-> to, line_start |-> FALSE,
               emit |-> <<WordStringLiteral(Slice(buf, pos, to))>>, panic |-> FALSE]
       ELSE IF c = NL THEN
           [pos |-> pos + 1, line_start |-> TRUE, emit |-> <<>>, panic |-> FALSE]
       ELSE IF c = TAB /\ line_start THEN
           LET to == ScanTabs(buf, pos)
           IN [pos |-> to, line_start |-> line_start,
               emit |-> <<WordOpeningTab(to - pos)>>, panic |-> FALSE]
       ELSE IF is_whitespace(c) THEN
           [pos |-> pos + 1, line_start |-> FALSE, emit |-> <<>>, panic |-> FALSE]
       ELSE IF IsPunctuation(c) THEN
           [pos |-> pos + 1, line_start |-> FALSE,
            emit |-> <<PunctuationWord(c)>>, panic |-> FALSE]
       ELSE
           [pos |-> pos, line_start |-> FALSE, emit |-> <<>>, panic |-> TRUE]


(***************************************************************************)
(* Tokens (enum Token)                                                     *)
(***************************************************************************)
Tok(kind) == [k |-> kind, v |-> <<>>, n |-> 0]
TokName(name) == [k |-> "Name", v |-> name, n |-> 0]
TokNumber(number) == [k |-> "Number", v |-> number, n |-> 0]
TokStringLiteral(string) == [k |-> "StringLiteral", v |-> string, n |-> 0]
TokOpeningTab(tabs) == [k |-> "OpeningTab", v |-> <<>>, n |-> tabs]

DigitChar(d) == CASE d = 0 -> "0" [] d = 1 -> "1" [] d = 2 -> "2" [] d = 3 -> "3"
                  [] d = 4 -> "4" [] d = 5 -> "5" [] d = 6 -> "6" [] d = 7 -> "7"
                  [] d = 8 -> "8" [] d = 9 -> "9"

\* i32::to_string of a value >= 0: its decimal digits, most significant first.
RECURSIVE ToDecimal(_)
ToDecimal(i) ==
    IF i < 10 THEN <<DigitChar(i)>>
    ELSE Append(ToDecimal(i \div 10), DigitChar(i % 10))

(***************************************************************************)
(* Abstracter (the phrase assembler)                                       *)
(***************************************************************************)
\* Abstracter::expect at a 0-based cursor: the discriminant of the word there.
AbsExpect(ws, cw, kind) == cw < Len(ws) /\ ws[cw + 1].k = kind

AbsOk(cw, emit) == [cw |-> cw, emit |-> emit, panic |-> FALSE]
AbsPanic(cw) == [cw |-> cw, emit |-> <<>>, panic |-> TRUE]

is_number(word) == word.k \in {"Wan", "Tu", "Luka"}

tokenize_o(ws, cw) ==
    IF ~AbsExpect(ws, cw, "O") THEN AbsPanic(cw)
    ELSE LET c1 == cw + 1
         IN IF AbsExpect(ws, c1, "Tawa") THEN AbsOk(c1 + 1, <<Tok("OTawa")>>)
            ELSE IF AbsExpect(ws, c1, "Name") THEN AbsOk(c1, <<Tok("O")>>)
            ELSE IF AbsExpect(ws, c1, "Weka") THEN AbsOk(c1 + 1, <<Tok("OWeka")>>)
            ELSE IF AbsExpect(ws, c1, "Sin") THEN
                IF AbsExpect(ws, c1 + 1, "E") THEN AbsOk(c1 + 2, <<Tok("OSin")>>)
                ELSE AbsPanic(c1 + 1)
            ELSE IF AbsExpect(ws, c1, "Pini") THEN AbsOk(c1 + 1, <<Tok("OPini")>>)
            ELSE AbsPanic(c1)

\* A slip in the weights of tokenize_nanpas: luka counted as 4.
NanpaWeight_Mut(word) == CASE word.k = "Wan" -> 1 [] word.k = "Tu" -> 2 [] word.k = "Luka" -> 4

NanpaWeight(word) == CASE word.k = "Wan" -> 1 [] word.k = "Tu" -> 2 [] word.k = "Luka" -> 5

\* The loop of tokenize_nanpas: <<cursor after the run, result>>.
RECURSIVE NanpasLoop(_, _, _)
NanpasLoop(ws, cw, result) ==
    IF cw < Len(ws) /\ ws[cw + 1].k \in {"Wan", "Tu", "Luka"}
    THEN NanpasLoop(ws, cw + 1, result + NanpaWeight(ws[cw + 1]))
    ELSE <<cw, result>>

tokenize_nanpas(ws, cw) ==
    LET r == NanpasLoop(ws, cw, 0)
    IN AbsOk(r[1], <<TokNumber(ToDecimal(r[2]))>>)

tokenize_name(ws, cw) ==
    IF ~AbsExpect(ws, cw, "Name") THEN AbsOk(cw, <<>>)
    ELSE AbsOk(cw + 1, <<TokName(ws[cw + 1].v)>>)

tokenize_number(ws, cw) ==
    IF ~AbsExpect(ws, cw, "Number") THEN AbsOk(cw, <<>>)
    ELSE AbsOk(cw + 1, <<TokNumber(ws[cw + 1].v)>>)

tokenize_tenpo(ws, cw) ==
    IF ~AbsExpect(ws, cw, "Tenpo") THEN AbsOk(cw, <<>>)
    ELSE LET c1 == cw + 1
         IN IF AbsExpect(ws, c1, "Ale") THEN
                IF ~AbsExpect(ws, c1 + 1, "Pi") THEN AbsPanic(c1 + 1)
                ELSE AbsOk(c1 + 2, <<Tok("TenpoAlePi")>>)
            ELSE IF AbsExpect(ws, c1, "Pi") THEN AbsOk(c1 + 1, <<Tok("TenpoPi")>>)
            ELSE AbsPanic(c1)

\* The two trailing ifs of tokenize_li ("li pali e ni", then "li pana e"):
\* neither returns, and a miss of both falls off the end of the function.
LiPana(ws, cw, emit) ==
    IF AbsExpect(ws, cw, "Pana") THEN
        IF ~AbsExpect(ws, cw + 1, "E") THEN AbsPanic(cw + 1)
        ELSE AbsOk(cw + 2, Append(emit, Tok("LiPanaE")))
    ELSE AbsOk(cw, emit)

tokenize_li(ws, cw) ==
    IF ~AbsExpect(ws, cw, "Li") THEN AbsOk(cw, <<>>)
    ELSE LET c1 == cw + 1
         IN IF AbsExpect(ws, c1, "Kama") THEN
                IF ~AbsExpect(ws, c1 + 1, "Sama") THEN AbsPanic(c1 + 1)
                ELSE AbsOk(c1 + 2, <<Tok("LiKamaSama")>>)
            ELSE IF AbsExpect(ws, c1, "Kepeken") THEN AbsOk(c1 + 1, <<Tok("LiKepeken")>>)
            ELSE IF AbsExpect(ws, c1, "Pali") THEN
                IF ~AbsExpect(ws, c1 + 1, "E") THEN AbsPanic(c1 + 1)
                ELSE IF ~AbsExpect(ws, c1 + 2, "Ni") THEN AbsPanic(c1 + 2)
                ELSE LiPana(ws, c1 + 3, <<Tok("LiPaliENi")>>)
            ELSE LiPana(ws, c1, <<>>)

tokenize_arithmetics(ws, cw) ==
    IF cw >= Len(ws) THEN AbsPanic(cw)
    ELSE LET k == ws[cw + 1].k
         IN IF k \in {"Plus", "Minus", "Star", "ForwardSlash", "Equals"}
            THEN AbsOk(cw + 1, <<Tok(k)>>)
            ELSE AbsPanic(cw)

\* The words Abstracter::tokenize promotes to the token of the same name.
PassThroughWords == {"Nanpa", "Period", "Kepeken", "En", "E", "A", "Pali",
                     "OpenParenthesis", "CloseParenthesis", "La"}

\* One iteration of the while loop of Abstracter::tokenize (cw < Len(ws)).
TokenizeIteration(ws, cw) ==
    LET word == ws[cw + 1]
    IN CASE word.k = "Name" -> tokenize_name(ws, cw)
         [] word.k = "Number" -> tokenize_number(ws, cw)
         [] word.k = "StringLiteral" -> AbsOk(cw + 1, <<TokStringLiteral(word.v)>>)
         [] word.k = "O" -> tokenize_o(ws, cw)
         [] word.k = "Tenpo" -> tokenize_tenpo(ws, cw)
         [] word.k \in {"Plus", "Minus", "ForwardSlash", "Star", "Equals"} ->
                tokenize_arithmetics(ws, cw)
         [] word.k \in PassThroughWords -> AbsOk(cw + 1, <<Tok(word.k)>>)
         [] word.k = "Li" -> tokenize_li(ws, cw)
         [] word.k = "OpeningTab" -> AbsOk(cw + 1, <<TokOpeningTab(word.n)>>)
         [] is_number(word) -> tokenize_nanpas(ws, cw)
         [] OTHER -> AbsPanic(cw)

(***************************************************************************)
(* AST.  Option<T> is a sequence: <<>> is None and <<x>> is Some(x).       *)
(* Type names are strings; identifiers are character sequences.            *)
(***************************************************************************)
None == <<>>
Some(x) == <<x>>

NanpaExpression(value) == [k |-> "Nanpa", value |-> value]
NimiExpression(name) == [k |-> "Nimi", name |-> name]
OExpression(nimi, params) == [k |-> "O", nimi |-> nimi, params |-> params]
BinaryExpression(kind, lhs, rhs) == [k |-> "Binary", kind |-> kind, lhs |-> lhs, rhs |-> rhs]

OtawaStatement(expr) == [k |-> "Otawa", expr |-> expr]
OWekaStatement(expr) == [k |-> "OWeka", expr |-> expr]
OSinStatement(var_type, name, expr) ==
    [k |-> "OSin", var_type |-> var_type, name |-> name, expr |-> expr]
LiKamaSamaStatement(nimi, expression) ==
    [k |-> "LiKamaSama", nimi |-> nimi, expression |-> expression]
PaliStatement(nimi, params, body, retval) ==
    [k |-> "Pali", nimi |-> nimi, params |-> params, nodes |-> body, retval |-> retval]
PaliDeclaration(nimi, params, retval) ==
    [k |-> "PaliDeclaration", nimi |-> nimi, params |-> params, retval |-> retval]
TenpoStatement(expr, body) == [k |-> "Tenpo", expr |-> expr, nodes |-> body]
Parenthesis(body) == [k |-> "Parenthesis", nodes |-> body]
KepekenStatement(nimi) == [k |-> "Kepeken", nimi |-> nimi]
NodeOpeningTab(tabs) == [k |-> "OpeningTab", n |-> tabs]

(***************************************************************************)
(* Precedence (enum Precedence, its derived PartialOrd is the order of the *)
(* discriminants)                                                          *)
(***************************************************************************)
Undefined == 0
Comparing == 1
Linear == 2
Scaling == 3
Unary == 4
TheBiggest == 5

\* A slip in Precedence::next: the right operand parsed at the operator's own level.
PrecedenceNext_Mut(p) == p

PrecedenceNext(p) ==
    CASE p = Undefined -> Comparing
      [] p = Comparing -> Linear
      [] p = Linear -> Scaling
      [] p = Scaling -> Unary
      [] p = Unary -> TheBiggest
      [] p = TheBiggest -> TheBiggest

get_precedence(binary_expression_type) ==
    CASE binary_expression_type \in {"Add", "Subtract"} -> Linear
      [] binary_expression_type \in {"Multiply", "Divide"} -> Scaling
      [] binary_expression_type \in {"GreaterThan", "Equals", "LessThan"} -> Comparing

\* The match of parse_expression from the peeked token to the operator kind.
BinaryTokens == {"Plus", "Minus", "Star", "ForwardSlash", "GreaterThan", "LessThan", "Equals"}

BinaryTypeOf(token_kind) ==
    CASE token_kind = "Plus" -> "Add"
      [] token_kind = "Minus" -> "Subtract"
      [] token_kind = "Star" -> "Multiply"
      [] token_kind = "ForwardSlash" -> "Divide"
      [] token_kind = "GreaterThan" -> "GreaterThan"
      [] token_kind = "LessThan" -> "LessThan"
      [] token_kind = "Equals" -> "Equals"

(***************************************************************************)
(* Parser.  Every parse_* is an operator from the token vector and a       *)
(* 0-based cursor to a record: st is "ok" (Ok, or a returned Node), "err"  *)
(* (a returned Err) or "panic"; val is the value; pos the cursor after.    *)
(***************************************************************************)
POk(val, pos) == [st |-> "ok", val |-> val, pos |-> pos]
PErr(pos) == [st |-> "err", val |-> <<>>, pos |-> pos]
PPanic(pos) == [st |-> "panic", val |-> <<>>, pos |-> pos]

\* Result::unwrap
Unwrap(r) == IF r.st = "err" THEN PPanic(r.pos) ELSE r

ParExpect(ts, pos, kind) == pos < Len(ts) /\ ts[pos + 1].k = kind

DigitValue(c) == CASE c = "0" -> 0 [] c = "1" -> 1 [] c = "2" -> 2 [] c = "3" -> 3
                   [] c = "4" -> 4 [] c = "5" -> 5 [] c = "6" -> 6 [] c = "7" -> 7
                   [] c = "8" -> 8 [] c = "9" -> 9

\* str::parse::<isize> on the text of a Number token.  The lexer starts such
\* a text with a digit, so it parses iff every character is a digit (the
\* model's literals are far below isize::MAX).
IsDecimal(text) == Len(text) > 0 /\ \A i \in 1..Len(text) : text[i] \in Digits

RECURSIVE FromDecimal(_)
FromDecimal(text) ==
    IF Len(text) = 0 THEN 0
    ELSE 10 * FromDecimal(SubSeq(text, 1, Len(text) - 1)) + DigitValue(text[Len(text)])

parse_nanpa_expression(ts, pos) ==
    IF pos >= Len(ts) THEN PPanic(pos)
    ELSE IF ts[pos + 1].k = "Number" THEN
        IF IsDecimal(ts[pos + 1].v)
        THEN POk(NanpaExpression(FromDecimal(ts[pos + 1].v)), pos + 1)
        ELSE PPanic(pos)
    ELSE PErr(pos)

parse_nimi_expression(ts, pos) ==
    IF pos >= Len(ts) THEN PPanic(pos)
    ELSE IF ts[pos + 1].k = "Name" THEN POk(NimiExpression(ts[pos + 1].v), pos + 1)
    ELSE PErr(pos)

parse_kepeken(ts, pos) ==
    IF ~ParExpect(ts, pos, "StringLiteral") THEN PErr(pos)
    ELSE LET nimi == parse_nimi_expression(ts, pos)
         IN IF nimi.st # "ok" THEN nimi ELSE POk(KepekenStatement(nimi.val), nimi.pos)

parse_type(ts, pos) ==
    IF pos >= Len(ts) THEN PErr(pos)
    ELSE IF ts[pos + 1].k \notin {"Nanpa", "Linja"} THEN PErr(pos)
    ELSE LET vartype == IF ts[pos + 1].k = "Nanpa" THEN "nanpa" ELSE "linja"
         IN IF pos + 1 >= Len(ts) THEN PErr(pos + 1)
            ELSE IF ts[pos + 2].k = "Awen" THEN PPanic(pos + 2)
            ELSE POk(vartype, pos + 1)

RECURSIVE parse_unary_expression(_, _)
RECURSIVE parse_expression(_, _, _)
RECURSIVE ExpressionLoop(_, _, _, _)
RECURSIVE parse_o(_, _)
RECURSIVE OParams(_, _, _)

parse_unary_expression(ts, pos) ==
    IF pos >= Len(ts) THEN PPanic(pos)
    ELSE LET k == ts[pos + 1].k
         IN IF k = "Number" THEN parse_nanpa_expression(ts, pos)
            ELSE IF k = "Name" THEN parse_nimi_expression(ts, pos)
            ELSE IF k = "O" THEN parse_o(ts, pos)
            ELSE IF k = "StringLiteral" THEN PPanic(pos)
            ELSE PErr(pos)

\* The loop of parse_expression, lhs_expr parsed so far.
ExpressionLoop(ts, pos, lhs_expr, min_precedence) ==
    IF pos >= Len(ts) THEN POk(lhs_expr, pos)
    ELSE IF ts[pos + 1].k \notin BinaryTokens THEN POk(lhs_expr, pos)
    ELSE LET binary_type == BinaryTypeOf(ts[pos + 1].k)
             current_precedence == get_precedence(binary_type)
         IN IF current_precedence < min_precedence THEN POk(lhs_expr, pos)
            ELSE LET rhs == parse_expression(ts, pos + 1, PrecedenceNext(current_precedence))
                 IN IF rhs.st # "ok" THEN rhs
                    ELSE ExpressionLoop(ts, rhs.pos,
                             BinaryExpression(binary_type, lhs_expr, rhs.val),
                             min_precedence)

parse_expression(ts, pos, min_precedence) ==
    LET lhs_unary == parse_unary_expression(ts, pos)
    IN IF lhs_unary.st # "ok" THEN lhs_unary
       ELSE ExpressionLoop(ts, lhs_unary.pos, lhs_unary.val, min_precedence)

\* A slip in the loop of parse_o: each argument inserted at the front.
RECURSIVE OParams_Mut(_, _, _)
OParams_Mut(ts, pos, params) ==
    LET e == parse_expression(ts, pos, Undefined)
    IN IF e.st # "ok" THEN e
       ELSE IF ~ParExpect(ts, e.pos, "E") THEN POk(<<e.val>> \o params, e.pos)
       ELSE OParams_Mut(ts, e.pos + 1, <<e.val>> \o params)

\* The loop of parse_o after a consumed `e`: one expression, then again
\* while an `e` follows.
OParams(ts, pos, params) ==
    LET e == parse_expression(ts, pos, Undefined)
    IN IF e.st # "ok" THEN e
       ELSE IF ~ParExpect(ts, e.pos, "E") THEN POk(Append(params, e.val), e.pos)
       ELSE OParams(ts, e.pos + 1, Append(params, e.val))

parse_o(ts, pos) ==
    IF ~ParExpect(ts, pos, "O") THEN PErr(pos)
    ELSE LET nimi == parse_nimi_expression(ts, pos + 1)
         IN IF nimi.st # "ok" THEN nimi
            ELSE LET params == IF ParExpect(ts, nimi.pos, "E")
                               THEN OParams(ts, nimi.pos + 1, <<>>)
                               ELSE POk(<<>>, nimi.pos)
                 IN IF params.st # "ok" THEN params
                    ELSE IF ~ParExpect(ts, params.pos, "A") THEN PErr(params.pos)
                    ELSE POk(OExpression(nimi.val.name, params.val), params.pos + 1)

parse_otawa(ts, pos) ==
    IF pos >= Len(ts) THEN PPanic(pos)
    ELSE IF ts[pos + 1].k # "OTawa" THEN PErr(pos)
    ELSE LET expr == parse_expression(ts, pos + 1, Undefined)
         IN IF expr.st # "ok" THEN expr ELSE POk(OtawaStatement(expr.val), expr.pos)

parse_o_weka(ts, pos) ==
    IF ~ParExpect(ts, pos, "OWeka") THEN PErr(pos)
    ELSE IF ParExpect(ts, pos + 1, "E") THEN
        LET expr == parse_expression(ts, pos + 2, Undefined)
        IN IF expr.st # "ok" THEN expr
           ELSE POk(OWekaStatement(Some(expr.val)), expr.pos)
    ELSE POk(OWekaStatement(None), pos + 1)

parse_o_sin(ts, pos) ==
    LET variable_type == parse_type(ts, pos + 1)
    IN IF variable_type.st # "ok" THEN variable_type
       ELSE LET name == parse_nimi_expression(ts, variable_type.pos)
            IN IF name.st # "ok" THEN name
               ELSE POk(OSinStatement("nanpa", name.val.name, None), name.pos)

parse_li_kama_sama(ts, pos) ==
    LET nimi == parse_nimi_expression(ts, pos)
    IN IF nimi.st # "ok" THEN nimi
       ELSE IF ~ParExpect(ts, nimi.pos, "LiKamaSama") THEN PErr(nimi.pos)
       ELSE LET expression == parse_expression(ts, nimi.pos + 1, Undefined)
            IN IF expression.st # "ok" THEN expression
               ELSE POk(LiKamaSamaStatement(nimi.val.name, expression.val), expression.pos)

\* The inner loop of parse_pali after `li kepeken`: (type, name) pairs
\* separated by `en`.
RECURSIVE PaliParams(_, _, _)
PaliParams(ts, pos, params) ==
    LET type == parse_type(ts, pos)
    IN IF type.st # "ok" THEN type
       ELSE LET name == parse_nimi_expression(ts, type.pos)
            IN IF name.st # "ok" THEN name
               ELSE LET pushed == Append(params, <<type.val, name.val.name>>)
                    IN IF ~ParExpect(ts, name.pos, "En") THEN POk(pushed, name.pos)
                       ELSE PaliParams(ts, name.pos + 1, pushed)

\* The outer loop of parse_pali: the optional `li pana e` and `li kepeken`
\* clauses.  val is the record of params, retval and the two flags.
RECURSIVE PaliClauses(_, _, _)
PaliClauses(ts, pos, h) ==
    IF ParExpect(ts, pos, "LiPanaE") /\ ~h.has_type THEN
        LET retval == parse_type(ts, pos + 1)
        IN IF retval.st # "ok" THEN retval
           ELSE PaliClauses(ts, retval.pos,
                    [h EXCEPT !.retval = Some(retval.val), !.has_type = TRUE])
    ELSE IF ParExpect(ts, pos, "LiKepeken") /\ ~h.has_params THEN
        LET params == PaliParams(ts, pos + 1, h.params)
        IN IF params.st # "ok" THEN params
           ELSE PaliClauses(ts, params.pos,
                    [h EXCEPT !.params = params.val, !.has_params = TRUE])
    ELSE POk(h, pos)

\* A slip at the end of parse_pali: the implicit return never appended.
AppendOWeka_Mut(body) == body

\* The end of parse_pali: the implicit return-from-function.
AppendOWeka(body) ==
    IF ~(\E i \in 1..Len(body) : body[i].k = "OWeka")
    THEN Append(body, OWekaStatement(None))
    ELSE body

RECURSIVE parse_statement(_, _)
RECURSIVE parse_tenpo(_, _)
RECURSIVE TenpoBody(_, _, _)
RECURSIVE parse_pali(_, _)
RECURSIVE PaliBody(_, _, _)
RECURSIVE parse_parenthesis(_, _)
RECURSIVE ParenthesisBody(_, _, _)

\* The loop of parse_tenpo: a statement, then `o pini` or again.
TenpoBody(ts, pos, body) ==
    LET node == parse_statement(ts, pos)
    IN IF node.st # "ok" THEN node
       ELSE IF ParExpect(ts, node.pos, "OPini")
            THEN POk(Append(body, node.val), node.pos + 1)
            ELSE TenpoBody(ts, node.pos, Append(body, node.val))

parse_tenpo(ts, pos) ==
    IF ~ParExpect(ts, pos, "TenpoPi") THEN PErr(pos)
    ELSE LET expr == parse_expression(ts, pos + 1, Undefined)
         IN IF expr.st # "ok" THEN expr
            ELSE IF ~ParExpect(ts, expr.pos, "La") THEN PErr(expr.pos)
            ELSE LET body == TenpoBody(ts, expr.pos + 1, <<>>)
                 IN IF body.st # "ok" THEN body
                    ELSE POk(TenpoStatement(expr.val, body.val), body.pos)

\* The body loop of parse_pali: `o pini` or a statement.
PaliBody(ts, pos, body) ==
    IF ParExpect(ts, pos, "OPini") THEN POk(body, pos + 1)
    ELSE LET node == parse_statement(ts, pos)
         IN IF node.st # "ok" THEN node
            ELSE PaliBody(ts, node.pos, Append(body, node.val))

\* Ok((Some(PaliStatement), None)) and Ok((None, Some(PaliDeclaration))) are
\* the node itself: its k tells which.
parse_pali(ts, pos) ==
    IF ~ParExpect(ts, pos, "Pali") THEN PErr(pos)
    ELSE LET nimi == parse_nimi_expression(ts, pos + 1)
         IN IF nimi.st # "ok" THEN nimi
            ELSE LET h == PaliClauses(ts, nimi.pos,
                              [params |-> <<>>, has_params |-> FALSE,
                               retval |-> None, has_type |-> FALSE])
                 IN IF h.st # "ok" THEN h
                    ELSE IF ~ParExpect(ts, h.pos, "LiPaliENi")
                    THEN POk(PaliDeclaration(nimi.val.name, h.val.params, h.val.retval), h.pos)
                    ELSE LET body == PaliBody(ts, h.pos + 1, <<>>)
                         IN IF body.st # "ok" THEN body
                            ELSE POk(PaliStatement(nimi.val.name, h.val.params,
                                         AppendOWeka(body.val), h.val.retval),
                                     body.pos)

\* The loop of parse_parenthesis: `)` or a statement.
ParenthesisBody(ts, pos, body) ==
    IF ParExpect(ts, pos, "CloseParenthesis") THEN POk(body, pos + 1)
    ELSE LET node == parse_statement(ts, pos)
         IN IF node.st # "ok" THEN node
            ELSE ParenthesisBody(ts, node.pos, Append(body, node.val))

parse_parenthesis(ts, pos) ==
    IF ~ParExpect(ts, pos, "OpenParenthesis") THEN PErr(pos)
    ELSE LET body == ParenthesisBody(ts, pos + 1, <<>>)
         IN IF body.st # "ok" THEN body
            ELSE POk(Parenthesis(body.val), body.pos)

\* parse_statement returns a Node or panics: every Err is unwrapped.
parse_statement(ts, pos) ==
    IF pos >= Len(ts) THEN PPanic(pos)
    ELSE LET token == ts[pos + 1]
         IN CASE token.k = "OTawa" -> Unwrap(parse_otawa(ts, pos))
              [] token.k = "Name" -> Unwrap(parse_li_kama_sama(ts, pos))
              [] token.k = "OSin" -> Unwrap(parse_o_sin(ts, pos))
              [] token.k = "Pali" -> Unwrap(parse_pali(ts, pos))
              [] token.k = "OpeningTab" -> POk(NodeOpeningTab(token.n), pos + 1)
              [] token.k = "OWeka" -> Unwrap(parse_o_weka(ts, pos))
              [] token.k = "O" -> Unwrap(parse_o(ts, pos))
              [] token.k = "OpenParenthesis" -> Unwrap(parse_parenthesis(ts, pos))
              [] token.k = "TenpoPi" -> Unwrap(parse_tenpo(ts, pos))
              [] token.k = "Kepeken" -> Unwrap(parse_kepeken(ts, pos))
              [] OTHER -> PPanic(pos)

(***************************************************************************)
(* Generator.  The Scope, the buffered writer and the standard output are  *)
(* threaded through every generate_* as one record g: functions, types,    *)
(* envs and label_counter are the fields of Scope, out the lines written   *)
(* to the writer, stdout the lines printed with println!, st is "ok" or    *)
(* "panic", ret the bool returned by generate_node.  overflow_checks tells *)
(* whether the build traps usize overflow (it panics) or wraps; a wrapped  *)
(* usize 2^64 - k is held as the integer -k, so sums and differences of    *)
(* wrapped values agree with the machine's modulo 2^64.                    *)
(***************************************************************************)
\* One line of assembly text: `op dst, word src`, n the number and s the
\* name the line prints.
Ins(op, dst, word, src, n, s) ==
    [op |-> op, dst |-> dst, word |-> word, src |-> src, n |-> n, s |-> s]

BlankLine == Ins("", "", "", "", 0, <<>>)

EmptyMap == [x \in {} |-> x]

\* HashMap::insert
MapInsert(map, key, value) ==
    [x \in (DOMAIN map) \cup {key} |-> IF x = key THEN value ELSE map[x]]

\* Environment { names: HashMap::new(), stack_pointer: 0, tab_depth: 0 }
NewEnvironment == [names |-> EmptyMap, stack_pointer |-> 0, tab_depth |-> 0]

\* The Scope main builds: no function, the type nanpa of size 8, one
\* Environment.
NewScope ==
    [functions |-> EmptyMap,
     types |-> [t \in {"nanpa"} |-> [size |-> 8, name |-> t]],
     envs |-> <<NewEnvironment>>,
     label_counter |-> 0]

\* The Scope before main builds it.
NoScope == [functions |-> EmptyMap, types |-> EmptyMap, envs |-> <<>>, label_counter |-> 0]

GPanic(g) == [g EXCEPT !.st = "panic"]

\* writeln!(writer, ...)
Emit(g, line) == IF g.st # "ok" THEN g ELSE [g EXCEPT !.out = Append(@, line)]

\* The caller's panic, after println!("{:#?}", self) of Scope::get_variable
\* when dump is set.
Fail(g, dump) ==
    [g EXCEPT !.st = "panic",
              !.stdout = IF dump THEN Append(@, Ins("dump", "", "", "", 0, <<>>)) ELSE @]

get_argument_register(arg) ==
    CASE arg = 0 -> "rdi"
      [] arg = 1 -> "rsi"
      [] arg = 2 -> "rdx"
      [] arg = 3 -> "rcx"
      [] arg = 4 -> "r8"
      [] arg = 5 -> "r9"
      [] OTHER -> "r9"

\* "todo!" stands for the panic of the last arm.
get_word_from_size(size) ==
    CASE size = 1 -> "byte"
      [] size = 2 -> "word"
      [] size = 4 -> "dword"
      [] size = 8 -> "qword"
      [] OTHER -> "todo!"

RECURSIVE SumStackPointers(_, _)
SumStackPointers(envs, count) ==
    IF count <= 0 THEN 0
    ELSE SumStackPointers(envs, count - 1) + envs[count].stack_pointer

\* Scope::get_variable: st is "ok", or "err" after the Scope was printed, or
\* "panic" for unreachable!().
\* Scope::get_variable with the Environments searched from the outermost.
get_variable_Mut(g, name) ==
    LET len == Len(g.envs)
        binding == {i \in 1..len : name \in DOMAIN g.envs[i].names}
        none == [type_name |-> "", stack_pos |-> 0, offset |-> 0]
    IN IF len = 0 THEN [st |-> "panic", dump |-> FALSE] @@ none
       ELSE IF binding = {} THEN [st |-> "err", dump |-> TRUE] @@ none
       ELSE LET found_env_index == CHOOSE i \in binding : \A j \in binding : i <= j
                variable == g.envs[found_env_index].names[name]
                start_offset == SumStackPointers(g.envs, found_env_index - 1)
                                    + variable.stack_pos
                base_offset == SumStackPointers(g.envs, len - 1)
            IN [st |-> "ok", dump |-> FALSE, type_name |-> variable.type_name,
                stack_pos |-> variable.stack_pos,
                offset |-> start_offset - base_offset]

get_variable(g, name) ==
    LET len == Len(g.envs)
        binding == {i \in 1..len : name \in DOMAIN g.envs[i].names}
        none == [type_name |-> "", stack_pos |-> 0, offset |-> 0]
    IN IF len = 0 THEN [st |-> "panic", dump |-> FALSE] @@ none
       ELSE IF binding = {} THEN [st |-> "err", dump |-> TRUE] @@ none
       ELSE LET found_env_index == CHOOSE i \in binding : \A j \in binding : j <= i
                variable == g.envs[found_env_index].names[name]
                start_offset == SumStackPointers(g.envs, found_env_index - 1)
                                    + variable.stack_pos
                base_offset == SumStackPointers(g.envs, len - 1)
            IN [st |-> "ok", dump |-> FALSE, type_name |-> variable.type_name,
                stack_pos |-> variable.stack_pos,
                offset |-> start_offset - base_offset]

\* get_type_name: st is "ok" with the name in val, "none" for None, or
\* "panic"; dump tells that get_variable printed the Scope first.
TypeOk(name) == [st |-> "ok", val |-> name, dump |-> FALSE]
TypePanic(dump) == [st |-> "panic", val |-> "", dump |-> dump]

\* Self::Nimi: the type of the variable get_variable found, unwrapped.
NimiTypeName(variable) ==
    IF variable.st = "ok" THEN TypeOk(variable.type_name) ELSE TypePanic(variable.dump)

unary_get_type_name(g, unary) ==
    CASE unary.k = "Nanpa" -> TypeOk("nanpa")
      [] unary.k = "Nimi" -> NimiTypeName(get_variable(g, unary.name))
      [] unary.k = "O" ->
            IF unary.nimi \notin DOMAIN g.functions THEN TypePanic(FALSE)
            ELSE IF Len(g.functions[unary.nimi].return_type) = 0
            THEN [st |-> "none", val |-> "", dump |-> FALSE]
            ELSE TypeOk(g.functions[unary.nimi].return_type[1])

\* Option::unwrap and Option::expect on the type of a unary expression.
UnwrapTypeName(type) == IF type.st = "none" THEN TypePanic(FALSE) ELSE type

\* The end of BinaryExpression::get_type_name: the types of the two hands.
SameTypeName(lhstype, rhstype) ==
    IF lhstype.st # "ok" THEN lhstype
    ELSE IF rhstype.st # "ok" THEN rhstype
    ELSE IF lhstype.val = rhstype.val THEN rhstype
    ELSE TypePanic(FALSE)

RECURSIVE expression_get_type_name(_, _)
RECURSIVE binary_get_type_name(_, _)

expression_get_type_name(g, expression) ==
    IF expression.k = "Binary" THEN binary_get_type_name(g, expression)
    ELSE UnwrapTypeName(unary_get_type_name(g, expression))

binary_get_type_name(g, binary) ==
    SameTypeName(expression_get_type_name(g, binary.lhs),
                 expression_get_type_name(g, binary.rhs))

\* scope.get_type(&name).unwrap().size for a type name already computed.
SizeOfType(g, type) ==
    IF type.st # "ok" THEN [st |-> "panic", size |-> 0, dump |-> type.dump]
    ELSE IF type.val \notin DOMAIN g.types THEN [st |-> "panic", size |-> 0, dump |-> FALSE]
    ELSE [st |-> "ok", size |-> g.types[type.val].size, dump |-> FALSE]

\* scope.get_type(&expr.get_type_name(scope)).unwrap().size
ExpressionSize(g, expression) == SizeOfType(g, expression_get_type_name(g, expression))

AddStackPointer(g, size) ==
    IF g.st # "ok" THEN g
    ELSE [g EXCEPT !.envs[Len(g.envs)].stack_pointer = @ + size]

push(g, i, size) ==
    AddStackPointer(
        Emit(Emit(g, Ins("mov", "r8", "", "imm", i, <<>>)),
             Ins("push", "", "", "r8", 0, <<>>)),
        size)

\* reg is a register, or "[rbp - n]" with the displacement in offset.
push_reg(g, reg, offset, size) ==
    IF g.st # "ok" THEN g
    ELSE IF get_word_from_size(size) = "todo!" THEN GPanic(g)
    ELSE AddStackPointer(
             Emit(g, Ins("push", "", get_word_from_size(size), reg, offset, <<>>)),
             size)

pop_reg(g, reg, size) ==
    IF g.st # "ok" THEN g
    ELSE IF get_word_from_size(size) = "todo!" THEN GPanic(g)
    ELSE IF g.overflow_checks /\ g.envs[Len(g.envs)].stack_pointer < size
    THEN GPanic(Emit(g, Ins("pop", reg, get_word_from_size(size), "", 0, <<>>)))
    ELSE AddStackPointer(Emit(g, Ins("pop", reg, get_word_from_size(size), "", 0, <<>>)),
                         0 - size)

mov(g, to, offset, size, from) ==
    IF g.st # "ok" THEN g
    ELSE IF get_word_from_size(size) = "todo!" THEN GPanic(g)
    ELSE Emit(g, Ins("mov", to, get_word_from_size(size), from, offset, <<>>))

zero(g, reg) == Emit(g, Ins("xor", reg, "", reg, 0, <<>>))

\* push_reg and pop_reg with a size looked up just before: the lookup's
\* unwrap panics first.
PushSized(g, reg, offset, size) ==
    IF g.st # "ok" THEN g
    ELSE IF size.st # "ok" THEN Fail(g, size.dump)
    ELSE push_reg(g, reg, offset, size.size)

PopSized(g, reg, size) ==
    IF g.st # "ok" THEN g
    ELSE IF size.st # "ok" THEN Fail(g, size.dump)
    ELSE pop_reg(g, reg, size.size)

\* The size of the expression's type, then pop_reg of that size.
PopExpression(g, reg, expression) == PopSized(g, reg, ExpressionSize(g, expression))

\* Environment::add_name on the innermost Environment.
add_name(g, name, size, variable_type) ==
    IF g.st # "ok" THEN g
    ELSE [g EXCEPT !.envs[Len(g.envs)].names =
            MapInsert(@, name, [type_name |-> variable_type,
                                stack_pos |-> g.envs[Len(g.envs)].stack_pointer])]

\* reg is "" for None.
add_variable(g, name, variable_type, reg) ==
    IF g.st # "ok" THEN g
    ELSE IF variable_type \notin DOMAIN g.types THEN GPanic(g)
    ELSE add_name(IF reg # "" THEN push_reg(g, reg, 0, g.types[variable_type].size)
                  ELSE [g EXCEPT !.stdout =
                           Append(@, Ins("sub", "rsp", "", "imm",
                                         g.types[variable_type].size, <<>>))],
                  name, g.types[variable_type].size, variable_type)

new_scope(g) ==
    IF g.st # "ok" THEN g
    ELSE [Emit(g, Ins(";", "", "", "new scope", 0, <<>>))
            EXCEPT !.envs = Append(@, NewEnvironment)]

end_scope(g) ==
    IF g.st # "ok" THEN g
    ELSE Emit(Emit([g EXCEPT !.envs = SubSeq(@, 1, Len(@) - 1)],
                   Ins(";", "", "", "end of scope", 0, <<>>)),
              BlankLine)

generate_nanpa_expression(g, nanpa_expression) == push(g, nanpa_expression.value, 8)

\* generate_nimi_expression after get_variable(..).unwrap().
NimiPush(g, name, variable) ==
    IF variable.st # "ok" THEN Fail(g, variable.dump)
    ELSE PushSized(Emit(Emit(g, BlankLine),
                        Ins(";", "", "", "Getting value of variable", variable.offset, name)),
                   "[rbp - n]", variable.offset,
                   SizeOfType(g, TypeOk(variable.type_name)))

generate_nimi_expression(g, nimi_expression) ==
    IF g.st # "ok" THEN g
    ELSE NimiPush(g, nimi_expression.name, get_variable(g, nimi_expression.name))

generate_nimi_new(g, name, variable_type) ==
    IF g.st # "ok" THEN g
    ELSE IF name \in DOMAIN g.envs[Len(g.envs)].names THEN GPanic(g)
    ELSE add_variable(Emit(Emit(g, BlankLine), Ins(";", "", variable_type, "new", 0, name)),
                      name, variable_type, "")

\* generate_nimi_recieve_stack after get_variable.
NimiReceive(g, name, variable) ==
    LET size == SizeOfType(g, TypeOk(variable.type_name))
        written == Emit(Emit(g, BlankLine), Ins(";", "", "", "Setting variable", 0, name))
    IN IF variable.st # "ok" THEN Fail(g, variable.dump)
       ELSE IF size.st # "ok" THEN GPanic(written)
       ELSE mov(pop_reg(written, "r9", size.size),
                "[rbp - n]", variable.offset, size.size, "r9")

generate_nimi_recieve_stack(g, name) ==
    IF g.st # "ok" THEN g ELSE NimiReceive(g, name, get_variable(g, name))

RECURSIVE generate_expression(_, _)
RECURSIVE generate_binary_expression(_, _)
RECURSIVE generate_o(_, _)
RECURSIVE OArguments(_, _, _)
RECURSIVE generate_node(_, _)
RECURSIVE GenerateUntilReturn(_, _, _)
RECURSIVE BreakOrContinue(_, _, _)
RECURSIVE GenerateAll(_, _, _)

\* The first get_type_name of o.params that panics, or the vector of names.
RECURSIVE ArgumentTypes(_, _, _, _)
ArgumentTypes(g, params, i, types) ==
    IF i > Len(params) THEN [st |-> "ok", val |-> types, dump |-> FALSE]
    ELSE IF expression_get_type_name(g, params[i]).st # "ok"
    THEN [st |-> "panic", val |-> <<>>,
          dump |-> expression_get_type_name(g, params[i]).dump]
    ELSE ArgumentTypes(g, params, i + 1,
                       Append(types, expression_get_type_name(g, params[i]).val))

\* The loop of generate_o over o.params in reverse, index counted from 1.
OArguments(g, params, index) ==
    IF g.st # "ok" \/ index < 1 THEN g
    ELSE OArguments(PopExpression(generate_expression(g, params[index]),
                                  get_argument_register(index - 1), params[index]),
                    params, index - 1)

\* The end of generate_o: the returned value pushed.
OReturn(g, func) ==
    IF g.st # "ok" THEN g
    ELSE IF Len(func.return_type) = 0 THEN g
    ELSE PushSized(g, "rax", 0, SizeOfType(g, TypeOk(func.return_type[1])))

\* generate_o without the comparison of the two type vectors.
OCall_Mut(g, o, func) ==
    LET types == ArgumentTypes(g, o.params, 1, <<>>)
    IN IF types.st # "ok" THEN Fail(g, types.dump)
       ELSE OReturn(Emit(OArguments(g, o.params, Len(o.params)),
                         Ins("call", "", "", "", 0, o.nimi)),
                    func)

\* generate_o after its two comment lines.
OCall(g, o, func) ==
    LET types == ArgumentTypes(g, o.params, 1, <<>>)
    IN IF types.st # "ok" THEN Fail(g, types.dump)
       ELSE IF types.val # func.parameter_types THEN GPanic(g)
       ELSE OReturn(Emit(OArguments(g, o.params, Len(o.params)),
                         Ins("call", "", "", "", 0, o.nimi)),
                    func)

generate_o(g, o) ==
    IF g.st # "ok" THEN g
    ELSE IF o.nimi \notin DOMAIN g.functions THEN GPanic(g)
    ELSE OCall(Emit(Emit(g, BlankLine), Ins(";", "", "", "o", 0, o.nimi)),
               o, g.functions[o.nimi])

generate_unary_expression(g, unary) ==
    CASE unary.k = "Nanpa" -> generate_nanpa_expression(g, unary)
      [] unary.k = "Nimi" -> generate_nimi_expression(g, unary)
      [] unary.k = "O" -> generate_o(g, unary)
      [] OTHER -> g

\* generate_binary_expression after the two pops: the size of the result and
\* the match on binary.kind.
BinaryResult(g, kind, size) ==
    IF g.st # "ok" THEN g
    ELSE IF size.st # "ok" THEN Fail(g, size.dump)
    ELSE CASE kind = "Add" ->
               push_reg(Emit(g, Ins("add", "r8", "", "r9", 0, <<>>)), "r8", 0, size.size)
          [] kind = "Subtract" ->
               push_reg(Emit(g, Ins("sub", "r8", "", "r9", 0, <<>>)), "r8", 0, size.size)
          [] kind = "Multiply" ->
               push_reg(Emit(mov(g, "rax", 0, size.size, "r8"),
                             Ins("mul", "", "", "r9", 0, <<>>)),
                        "rax", 0, size.size)
          [] kind = "Divide" ->
               push_reg(Emit(mov(zero(g, "rdx"), "rax", 0, size.size, "r8"),
                             Ins("div", "", "", "r9", 0, <<>>)),
                        "rax", 0, size.size)
          [] kind = "Equals" ->
               push_reg(Emit(Emit(zero(g, "ecx"), Ins("cmp", "r8", "", "r9", 0, <<>>)),
                             Ins("setz", "cl", "", "", 0, <<>>)),
                        "rcx", 0, size.size)
          [] OTHER -> g

\* generate_binary_expression after both hands were generated.  The type
\* names do not depend on stack_pointer, so the size of the result is the
\* one the code looks up after the two pops.
BinaryOperate(g, binary) ==
    LET sizel == ExpressionSize(g, binary.lhs)
        sizer == ExpressionSize(g, binary.rhs)
    IN IF g.st # "ok" THEN g
       ELSE IF sizel.st # "ok" THEN Fail(g, sizel.dump)
       ELSE IF sizer.st # "ok" THEN Fail(g, sizer.dump)
       ELSE BinaryResult(pop_reg(pop_reg(g, "r9", sizel.size), "r8", sizer.size),
                         binary.kind, SizeOfType(g, binary_get_type_name(g, binary)))

generate_binary_expression(g, binary) ==
    BinaryOperate(generate_expression(generate_expression(g, binary.lhs), binary.rhs),
                  binary)

generate_expression(g, expression) ==
    IF g.st # "ok" THEN g
    ELSE IF expression.k = "Binary" THEN generate_binary_expression(g, expression)
    ELSE generate_unary_expression(g, expression)

generate_o_sin(g, osin) ==
    generate_nimi_new(IF Len(osin.expr) = 0 THEN g ELSE generate_expression(g, osin.expr[1]),
                      osin.name, osin.var_type)

generate_li_kama_sama_statement(g, kama_sama) ==
    generate_nimi_recieve_stack(
        generate_expression(Emit(g, BlankLine), kama_sama.expression),
        kama_sama.nimi)

\* generate_otawa after the expression was generated.
OtawaExit(g, expression) ==
    LET size == ExpressionSize(g, expression)
    IN IF g.st # "ok" THEN g
       ELSE IF size.st # "ok" THEN Fail(g, size.dump)
       ELSE Emit(Emit(mov(pop_reg(Emit(Emit(g, BlankLine),
                                       Ins(";", "", "", "Exit call:", 0, <<>>)),
                                  "rdi", size.size),
                          "rax", 0, size.size, "60"),
                      Ins("syscall", "", "", "", 0, <<>>)),
                 BlankLine)

generate_otawa(g, otawa) == OtawaExit(generate_expression(g, otawa.expr), otawa.expr)

\* writeln!(writer, "    ; Setting parameter ...") and Scope::add_variable
\* with the argument register.
generate_parameter(g, param, offset) ==
    add_variable(Emit(g, Ins(";", "", param[1], "Setting parameter", 0, param[2])),
                 param[2], param[1], get_argument_register(offset))

RECURSIVE PaliParameters(_, _, _)
PaliParameters(g, params, i) ==
    IF g.st # "ok" \/ i > Len(params) THEN g
    ELSE PaliParameters(generate_parameter(g, params[i], i - 1), params, i + 1)

\* The Some arm of generate_o_weka: the size first, then the expression.
OWekaValue(g, expression, size) ==
    IF size.st # "ok" THEN Fail(g, size.dump)
    ELSE pop_reg(generate_expression(g, expression), "rax", size.size)

\* A slip at the end of generate_o_weka: the frame is left but `ret` is
\* not written.
OWekaReturn_Mut(g) ==
    Emit(mov(Emit(g, Ins(";", "", "", "returning", 0, <<>>)), "rsp", 0, 8, "rbp"),
         Ins("pop", "rbp", "", "", 0, <<>>))

\* The end of generate_o_weka.
OWekaReturn(g) ==
    Emit(Emit(mov(Emit(g, Ins(";", "", "", "returning", 0, <<>>)), "rsp", 0, 8, "rbp"),
              Ins("pop", "rbp", "", "", 0, <<>>)),
         Ins("ret", "", "", "", 0, <<>>))

generate_o_weka(g, oweka) ==
    IF g.st # "ok" THEN g
    ELSE OWekaReturn(IF Len(oweka.expr) = 0 THEN g
                     ELSE OWekaValue(g, oweka.expr[1], ExpressionSize(g, oweka.expr[1])))

\* Scope::add_function and Scope::declare_function
add_function(g, pali) ==
    [g EXCEPT !.functions =
        MapInsert(@, pali.nimi,
                  [return_type |-> pali.retval,
                   parameter_types |-> [i \in 1..Len(pali.params) |-> pali.params[i][1]]])]

generate_pali_declaration(g, pali) ==
    IF g.st # "ok" THEN g
    ELSE Emit(add_function(g, pali), Ins("extrn", "", "", "", 0, pali.nimi))

\* writeln!(writer, "    add rsp, {}", names.len() * 8)
AddRsp(g) ==
    IF g.st # "ok" THEN g
    ELSE Emit(g, Ins("add", "rsp", "", "imm",
                     Cardinality(DOMAIN g.envs[Len(g.envs)].names) * 8, <<>>))

\* generate_tenpo after the condition was generated, up to the body.
TenpoTest(g, expression, label_index) ==
    Emit(Emit(PopExpression(g, "rax", expression),
              Ins("cmp", "rax", "", "imm", 0, <<>>)),
         Ins("je", "", "", ".endif", label_index, <<>>))

\* generate_tenpo after the body, the label taken from the counter as it is
\* after the body.
TenpoClose_Mut(g, label_index) ==
    Emit(end_scope(AddRsp(g)), Ins("label", "", "", ".endif", g.label_counter, <<>>))

\* generate_tenpo after the body, the scope left open when the body
\* returned.
TenpoClose_KeepScope(g, label_index) ==
    IF g.st = "ok" /\ g.ret
    THEN Emit(AddRsp(g), Ins("label", "", "", ".endif", label_index, <<>>))
    ELSE Emit(end_scope(AddRsp(g)), Ins("label", "", "", ".endif", label_index, <<>>))

\* generate_tenpo after the body.
TenpoClose(g, label_index) ==
    Emit(end_scope(AddRsp(g)), Ins("label", "", "", ".endif", label_index, <<>>))

\* generate_tenpo up to the loop over tenpo.nodes.
TenpoPrologue(g, tenpo) ==
    TenpoTest(
        generate_expression(
            new_scope(Emit([g EXCEPT !.label_counter = @ + 1],
                           Ins(";", "", "", "tenpo .. la", 0, <<>>))),
            tenpo.expr),
        tenpo.expr, g.label_counter + 1)

generate_tenpo(g, tenpo) ==
    IF g.st # "ok" THEN g
    ELSE TenpoClose(GenerateUntilReturn(TenpoPrologue(g, tenpo), tenpo.nodes, 1),
                    g.label_counter + 1)

\* generate_pali up to the loop over pali.nodes.
PaliPrologue(g, pali) ==
    PaliParameters(
        Emit(push_reg(new_scope(Emit(Emit(add_function(g, pali),
                                          Ins("public", "", "", "", 0, pali.nimi)),
                                     Ins("label", "", "", "", 0, pali.nimi))),
                      "rbp", 0, 8),
             Ins("mov", "rbp", "", "rsp", 0, <<>>)),
        pali.params, 1)

\* generate_pali with the function added to the Scope after its body.
generate_pali_Mut(g, pali) ==
    IF g.st # "ok" THEN g
    ELSE end_scope(
             add_function(
                 GenerateUntilReturn([PaliPrologue(g, pali) EXCEPT !.functions = g.functions],
                                     pali.nodes, 1),
                 pali))

generate_pali(g, pali) ==
    IF g.st # "ok" THEN g
    ELSE end_scope(GenerateUntilReturn(PaliPrologue(g, pali), pali.nodes, 1))

generate_parenthesis(g, paren) ==
    end_scope(AddRsp(GenerateAll(new_scope(Emit(g, BlankLine)), paren.nodes, 1)))

\* generate_node returning what the last generate_node inside it returned.
Returned_Mut(g, ret) == g

\* The bool generate_node returned last.
Returned(g, ret) == [g EXCEPT !.ret = ret]

\* `for node in nodes { if Self::generate_node(node, ..) { break; } }`
GenerateUntilReturn(g, body, i) ==
    IF g.st # "ok" \/ i > Len(body) THEN g
    ELSE BreakOrContinue(generate_node(g, body[i]), body, i)

\* After generate_node on body[i]: break when it returned true.
BreakOrContinue(g, body, i) ==
    IF g.st = "ok" /\ g.ret THEN g ELSE GenerateUntilReturn(g, body, i + 1)

\* `for node in &paren.nodes { Self::generate_node(node, ..); }`
GenerateAll(g, body, i) ==
    IF g.st # "ok" \/ i > Len(body) THEN g
    ELSE GenerateAll(generate_node(g, body[i]), body, i + 1)

\* The Node::O arm of generate_node after generate_o: the returned value
\* popped.
NodeOPop(g, o) ==
    IF g.st # "ok" THEN g
    ELSE IF o.nimi \notin DOMAIN g.functions THEN GPanic(g)
    ELSE IF Len(g.functions[o.nimi].return_type) = 0 THEN g
    ELSE PopSized(g, "rax", SizeOfType(g, TypeOk(g.functions[o.nimi].return_type[1])))

generate_node(g, node) ==
    IF g.st # "ok" THEN g
    ELSE Returned(
             CASE node.k = "Otawa" -> generate_otawa(g, node)
               [] node.k = "Tenpo" -> generate_tenpo(g, node)
               [] node.k = "OSin" -> generate_o_sin(g, node)
               [] node.k = "LiKamaSama" -> generate_li_kama_sama_statement(g, node)
               [] node.k = "Pali" -> generate_pali(g, node)
               [] node.k = "PaliDeclaration" -> generate_pali_declaration(g, node)
               [] node.k = "OWeka" -> generate_o_weka(g, node)
               [] node.k = "O" -> NodeOPop(generate_o(g, node), node)
               [] node.k = "Parenthesis" -> generate_parenthesis(g, node)
               [] OTHER -> g,
             node.k \in {"Otawa", "OWeka"})

\* writeln!(writer, "format ELF64")
generate_prelude(out) == Append(out, Ins("format", "", "", "ELF64", 0, <<>>))

(***************************************************************************)
(* The four stages as whole loops, each from the state its struct is built *)
(* in: what LexStep .. GenerateReturn do one iteration at a time.  st is   *)
(* "ok" or "panic".                                                        *)
(***************************************************************************)
\* Lexer::lex.  Like the code it does not return on a text with a `"`.
RECURSIVE lex(_, _, _, _)
lex(buf, pos, line_start, ws) ==
    IF pos >= Len(buf) THEN [st |-> "ok", val |-> ws, line_start |-> line_start]
    ELSE LET r == LexIteration(buf, pos, line_start)
         IN IF r.panic THEN [st |-> "panic", val |-> ws, line_start |-> line_start]
            ELSE lex(buf, r.pos, r.line_start, ws \o r.emit)

\* Abstracter::tokenize
RECURSIVE tokenize(_, _, _)
tokenize(ws, cw, toks) ==
    IF cw >= Len(ws) THEN [st |-> "ok", val |-> toks]
    ELSE LET r == TokenizeIteration(ws, cw)
         IN IF r.panic THEN [st |-> "panic", val |-> toks]
            ELSE tokenize(ws, r.cw, toks \o r.emit)

\* Parser::parse
RECURSIVE parse(_, _, _)
parse(ts, pos, parsed) ==
    IF pos >= Len(ts) THEN [st |-> "ok", val |-> parsed]
    ELSE LET r == parse_statement(ts, pos)
         IN IF r.st # "ok" THEN [st |-> "panic", val |-> parsed]
            ELSE parse(ts, r.pos, Append(parsed, r.val))

\* Generator::generate on the Scope main builds.
generate(program, checks) ==
    GenerateUntilReturn(
        [st |-> "ok", ret |-> FALSE, functions |-> NewScope.functions,
         types |-> NewScope.types, envs |-> NewScope.envs,
         label_counter |-> NewScope.label_counter, out |-> generate_prelude(<<>>),
         stdout |-> <<>>, overflow_checks |-> checks],
        program, 1)

(***************************************************************************)
(* Inputs: bounded families of source texts.                               *)
(***************************************************************************)
MaxSrcLen == 3      \* characters of a source of the character family
MaxTail == 3        \* lexemes after the leading `o`, `li` or `tenpo`
MaxNumerals == 4    \* lexemes of a source of the numeral family
MaxCallTail == 5    \* lexemes after `o f` in the call family
MaxSegs == 4        \* clauses and statements after `pali f`
MaxOps == 3         \* binary operators of an expression handed to the parser
MaxStall == 2       \* words the lexer may push beyond one per character
MaxBody == 3        \* statements and block openings of a generated body
MaxArgs == 3        \* arguments of a call, parameters of its callee

SeqsUpTo(S, n) == UNION { [1..m -> S] : m \in 0..n }

lx_o == <<"o">>
lx_e == <<"e">>
lx_a == <<"a">>
lx_x == <<"x">>
lx_f == <<"f">>
lx_g == <<"g">>
lx_y == <<"y">>
lx_1 == <<"1">>
lx_2 == <<"2">>
lx_3 == <<"3">>
lx_li == <<"l","i">>
lx_en == <<"e","n">>
lx_la == <<"l","a">>
lx_ni == <<"n","i">>
lx_pi == <<"p","i">>
lx_tu == <<"t","u">>
lx_wan == <<"w","a","n">>
lx_sin == <<"s","i","n">>
lx_ale == <<"a","l","e">>
lx_luka == <<"l","u","k","a">>
lx_tawa == <<"t","a","w","a">>
lx_weka == <<"w","e","k","a">>
lx_pini == <<"p","i","n","i">>
lx_kama == <<"k","a","m","a">>
lx_sama == <<"s","a","m","a">>
lx_pali == <<"p","a","l","i">>
lx_pana == <<"p","a","n","a">>
lx_awen == <<"a","w","e","n">>
lx_tenpo == <<"t","e","n","p","o">>
lx_nanpa == <<"n","a","n","p","a">>
lx_linja == <<"l","i","n","j","a">>
lx_kepeken == <<"k","e","p","e","k","e","n">>

\* The lexemes of a text, separated by single spaces.
RECURSIVE Join(_)
Join(lexemes) ==
    IF Len(lexemes) = 0 THEN <<>>
    ELSE IF Len(lexemes) = 1 THEN lexemes[1]
    ELSE lexemes[1] \o <<" ">> \o Join(Tail(lexemes))

RECURSIVE Flatten(_)
Flatten(segments) ==
    IF Len(segments) = 0 THEN <<>> ELSE segments[1] \o Flatten(Tail(segments))

LexAlphabet == {"o", "1", QUOTE, TAB, NL, " ", "+", "#"}
CharSources == SeqsUpTo(LexAlphabet, MaxSrcLen)

OTailVocab == {lx_tawa, lx_x, lx_weka, lx_sin, lx_e, lx_pini}
LiTailVocab == {lx_kama, lx_sama, lx_kepeken, lx_pali, lx_e, lx_ni, lx_pana, lx_x}
TenpoTailVocab == {lx_ale, lx_pi, lx_x}
IdiomSources ==
    { Join(<<lx_o>> \o t) : t \in SeqsUpTo(OTailVocab, MaxTail) }
    \cup { Join(<<lx_li>> \o t) : t \in SeqsUpTo(LiTailVocab, MaxTail) }
    \cup { Join(<<lx_tenpo>> \o t) : t \in SeqsUpTo(TenpoTailVocab, MaxTail) }

NumeralSources == { Join(t) : t \in SeqsUpTo({lx_wan, lx_tu, lx_luka, lx_x}, MaxNumerals) }

StandaloneLexemes ==
    {lx_e, lx_en, lx_la, lx_pali, lx_nanpa, lx_linja, lx_awen, lx_kepeken, lx_a}
    \cup { <<p[1]>> : p \in PunctuationTable }
StandaloneSources ==
    { w : w \in StandaloneLexemes }
    \cup { Join(<<lx_x, w>>) : w \in StandaloneLexemes }
    \cup { Join(<<w, lx_x>>) : w \in StandaloneLexemes }

CallSources ==
    { Join(<<lx_o, lx_f>> \o t) :
        t \in SeqsUpTo({lx_e, lx_wan, lx_x, lx_a, <<"+">>}, MaxCallTail) }

PaliSegments ==
    { <<lx_li, lx_pana, lx_e, lx_nanpa>>,
      <<lx_li, lx_kepeken, lx_nanpa, lx_x>>,
      <<lx_li, lx_pali, lx_e, lx_ni>>,
      <<lx_o, lx_weka>>,
      <<lx_o, lx_g, lx_a>>,
      <<lx_o, lx_pini>> }
PaliSources ==
    { Join(<<lx_pali, lx_f>> \o Flatten(t)) : t \in SeqsUpTo(PaliSegments, MaxSegs) }

\* `o tawa wan luka.`
Src_OTawaWanLuka == Join(<<lx_o, lx_tawa, lx_wan>>) \o <<" ">> \o lx_luka \o <<".">>
\* `o sin e`, and on the next line, after a tab, `nanpa x`.
Src_OSinTabNanpaX ==
    Join(<<lx_o, lx_sin, lx_e>>) \o <<NL, TAB>> \o Join(<<lx_nanpa, lx_x>>)
ScenarioSources == { Src_OTawaWanLuka, Src_OSinTabNanpaX }

(***************************************************************************)
(* Programs for the generator: a function f (or no function), then up to   *)
(* MaxBody statements and block openings, then the `o pini` that close     *)
(* what is still open; and a declared function f called with up to MaxArgs *)
(* arguments.                                                              *)
(***************************************************************************)
lx_LiPaliENi == <<lx_li, lx_pali, lx_e, lx_ni>>

FunctionHeaders ==
    { <<>>,
      <<lx_pali, lx_f>> \o lx_LiPaliENi,
      <<lx_pali, lx_f, lx_li, lx_kepeken, lx_nanpa, lx_x>> \o lx_LiPaliENi,
      <<lx_pali, lx_f, lx_li, lx_kepeken, lx_nanpa, lx_x, lx_en, lx_nanpa, lx_y>>
          \o lx_LiPaliENi,
      <<lx_pali, lx_f, lx_li, lx_kepeken, lx_nanpa, lx_x, lx_en, lx_nanpa, lx_x>>
          \o lx_LiPaliENi }

seg_SinX == <<lx_o, lx_sin, lx_e, lx_nanpa, lx_x>>
seg_SinY == <<lx_o, lx_sin, lx_e, lx_nanpa, lx_y>>
seg_TenpoX == <<lx_tenpo, lx_pi, lx_x, lx_la>>
seg_Pini == <<lx_o, lx_pini>>
seg_WekaX == <<lx_o, lx_weka, lx_e, lx_x>>
seg_TenpoWeka == seg_TenpoX \o <<lx_o, lx_weka>> \o seg_Pini

BodySegments == {seg_SinX, seg_SinY, seg_TenpoX, seg_WekaX, seg_TenpoWeka}

\* The blocks a body leaves open, the function's own included.
OpenBlocks(header, body) ==
    Cardinality({ i \in 1..Len(body) : body[i] = seg_TenpoX })
    + (IF header = <<>> THEN 0 ELSE 1)

Closers(n) == IF n <= 0 THEN <<>> ELSE Flatten([i \in 1..n |-> seg_Pini])

FunctionSources ==
    { Join(h \o Flatten(b) \o Closers(OpenBlocks(h, b))) :
        h \in FunctionHeaders, b \in SeqsUpTo(BodySegments, MaxBody) }

\* The k-th parameter of the callee: p1, p2, ...
ParameterName(k) == <<"p", DigitChar(k)>>

Parameters(n) ==
    IF n = 0 THEN <<>>
    ELSE <<lx_li, lx_kepeken>>
         \o Flatten([k \in 1..n |->
                IF k = 1 THEN <<lx_nanpa, ParameterName(k)>>
                ELSE <<lx_en, lx_nanpa, ParameterName(k)>>])

ArgumentLexemes == { <<lx_3>>, <<lx_x>>, <<lx_2, <<"/">>, lx_1>> }

Arguments(args) ==
    IF Len(args) = 0 THEN <<>>
    ELSE Flatten([k \in 1..Len(args) |-> <<lx_e>> \o args[k]])

\* `o sin e nanpa x  pali f [li kepeken ..]  o f [e ..] a`
CallPrograms ==
    { Join(seg_SinX \o <<lx_pali, lx_f>> \o Parameters(n)
           \o <<lx_o, lx_f>> \o Arguments(args) \o <<lx_a>>) :
        n \in 0..MaxArgs, args \in SeqsUpTo(ArgumentLexemes, MaxArgs) }

\* Blocks inside blocks: a function of one or two parameters, up to MaxBody
\* openings of a conditional or of a parenthesized block, one statement,
\* and what closes the blocks, the innermost first.
BlockOpenings == { seg_TenpoX, <<<<"(">>>> }

RECURSIVE BlockClosers(_)
BlockClosers(openings) ==
    IF Len(openings) = 0 THEN <<>>
    ELSE BlockClosers(Tail(openings))
             \o (IF Head(openings) = seg_TenpoX THEN seg_Pini ELSE <<<<")">>>>)

NestedPrograms ==
    { Join(<<lx_pali, lx_f>> \o h \o lx_LiPaliENi \o Flatten(openings) \o s
           \o BlockClosers(openings) \o seg_Pini) :
        h \in { <<lx_li, lx_kepeken, lx_nanpa, lx_x>>,
                <<lx_li, lx_kepeken, lx_nanpa, lx_y, lx_en, lx_nanpa, lx_x>> },
        openings \in SeqsUpTo(BlockOpenings, MaxBody),
        s \in { seg_SinX, seg_WekaX } }

\* Calls of f before, inside and after its definition or declaration, and
\* returns at the top level: up to MaxBody of these.
seg_CallF == <<lx_o, lx_f, lx_a>>
PlacementSegments ==
    { seg_CallF, <<lx_pali, lx_f>> \o lx_LiPaliENi, <<lx_pali, lx_f>>,
      seg_Pini, <<lx_o, lx_weka>> }
PlacementPrograms == { Join(Flatten(b)) : b \in SeqsUpTo(PlacementSegments, MaxBody) }

ProgramSources ==
    FunctionSources \cup CallPrograms \cup NestedPrograms \cup PlacementPrograms

\* buffer is one of the sources (a disjunction, one family at a time).
IsSource(b) ==
    \/ b \in CharSources
    \/ b \in IdiomSources
    \/ b \in NumeralSources
    \/ b \in StandaloneSources
    \/ b \in CallSources
    \/ b \in PaliSources
    \/ b \in ScenarioSources

(***************************************************************************)
(* main(): the pipeline, one action per loop iteration of each stage.      *)
(***************************************************************************)
Init ==
    /\ IsSource(buffer)
    /\ current_position = 0
    /\ is_line_start = TRUE
    /\ words = <<>>
    /\ current_word = 0
    /\ tokens = <<>>
    /\ current_token = 0
    /\ nodes = <<>>
    /\ scope = NoScope
    /\ writer = <<>>
    /\ stdout = <<>>
    /\ node_cursor = 0
    /\ overflow_checks = FALSE
    /\ mode = "Object"
    /\ commands = <<>>
    /\ phase = "lex"
    /\ fault = ""

LexStep ==
    /\ phase = "lex"
    /\ current_position < Len(buffer)
    /\ Len(words) < Len(buffer) + MaxStall
    /\ LET r == LexIteration(buffer, current_position, is_line_start)
       IN IF r.panic
          THEN /\ phase' = "panic"
               /\ fault' = "lex"
               /\ UNCHANGED <<current_position, is_line_start, words>>
          ELSE /\ current_position' = r.pos
               /\ is_line_start' = r.line_start
               /\ words' = words \o r.emit
               /\ UNCHANGED <<phase, fault>>
    /\ UNCHANGED <<buffer, current_word, tokens, current_token, nodes, scope,
                   writer, stdout, node_cursor, overflow_checks, mode, commands>>

LexReturn ==
    /\ phase = "lex"
    /\ current_position >= Len(buffer)
    /\ phase' = "tokenize"
    /\ UNCHANGED <<buffer, current_position, is_line_start, words, current_word,
                   tokens, current_token, nodes, scope, writer, stdout,
                   node_cursor, overflow_checks, mode, commands, fault>>

TokenizeStep ==
    /\ phase = "tokenize"
    /\ current_word < Len(words)
    /\ LET r == TokenizeIteration(words, current_word)
       IN /\ current_word' = r.cw
          /\ tokens' = tokens \o r.emit
          /\ phase' = IF r.panic THEN "panic" ELSE phase
          /\ fault' = IF r.panic THEN "tokenize" ELSE fault
    /\ UNCHANGED <<buffer, current_position, is_line_start, words, current_token,
                   nodes, scope, writer, stdout, node_cursor, overflow_checks, mode, commands>>

TokenizeReturn ==
    /\ phase = "tokenize"
    /\ current_word >= Len(words)
    /\ phase' = "parse"
    /\ UNCHANGED <<buffer, current_position, is_line_start, words, current_word,
                   tokens, current_token, nodes, scope, writer, stdout,
                   node_cursor, overflow_checks, mode, commands, fault>>

ParseStep ==
    /\ phase = "parse"
    /\ current_token < Len(tokens)
    /\ LET r == parse_statement(tokens, current_token)
       IN IF r.st = "ok"
          THEN /\ nodes' = Append(nodes, r.val)
               /\ current_token' = r.pos
               /\ UNCHANGED <<phase, fault>>
          ELSE /\ phase' = "panic"
               /\ fault' = "parse"
               /\ current_token' = r.pos
               /\ UNCHANGED nodes
    /\ UNCHANGED <<buffer, current_position, is_line_start, words, current_word,
                   tokens, scope, writer, stdout, node_cursor, overflow_checks, mode, commands>>

\* Parser::parse returns; main builds the Generator and the Scope.  Whether
\* the build traps integer overflow cannot be observed before the generator
\* runs, and the mode main read from its arguments is not consulted before
\* the assembler has run, so both are drawn here and kept for the rest of
\* the run.
ParseReturn ==
    /\ phase = "parse"
    /\ current_token >= Len(tokens)
    /\ phase' = "generate"
    /\ scope' = NewScope
    /\ overflow_checks' \in BOOLEAN
    /\ mode' \in {"Object", "Linked"}
    /\ UNCHANGED <<buffer, current_position, is_line_start, words, current_word,
                   tokens, current_token, nodes, writer, stdout, node_cursor,
                   commands, fault>>

\* The record the generate_* operators thread, and the Scope back out of it.
GeneratorState ==
    [st |-> "ok", ret |-> FALSE, functions |-> scope.functions, types |-> scope.types,
     envs |-> scope.envs, label_counter |-> scope.label_counter, out |-> writer,
     stdout |-> stdout, overflow_checks |-> overflow_checks]

ScopeOf(g) ==
    [functions |-> g.functions, types |-> g.types, envs |-> g.envs,
     label_counter |-> g.label_counter]

\* Generator::generate before its loop.
GeneratePrelude ==
    /\ phase = "generate"
    /\ writer = <<>>
    /\ writer' = generate_prelude(writer)
    /\ UNCHANGED <<buffer, current_position, is_line_start, words, current_word,
                   tokens, current_token, nodes, scope, stdout, node_cursor,
                   overflow_checks, mode, commands, phase, fault>>

\* One iteration of the loop of Generator::generate; the loop is left when
\* generate_node returns true.
GenerateStep ==
    /\ phase = "generate"
    /\ writer # <<>>
    /\ node_cursor < Len(nodes)
    /\ LET g == generate_node(GeneratorState, nodes[node_cursor + 1])
       IN /\ scope' = ScopeOf(g)
          /\ writer' = g.out
          /\ stdout' = g.stdout
          /\ IF g.st = "ok"
             THEN /\ node_cursor' = node_cursor + 1
                  /\ phase' = IF g.ret THEN "generated" ELSE phase
                  /\ UNCHANGED fault
             ELSE /\ phase' = "panic"
                  /\ fault' = "generate"
                  /\ UNCHANGED node_cursor
    /\ UNCHANGED <<buffer, current_position, is_line_start, words, current_word,
                   tokens, current_token, nodes, overflow_checks, mode, commands>>

GenerateReturn ==
    /\ phase = "generate"
    /\ writer # <<>>
    /\ node_cursor >= Len(nodes)
    /\ phase' = "generated"
    /\ UNCHANGED <<buffer, current_position, is_line_start, words, current_word,
                   tokens, current_token, nodes, scope, writer, stdout,
                   node_cursor, overflow_checks, mode, commands, fault>>

\* Command::new(program)...output().unwrap().  Command::output() ends in
\* Err (the program could not be started) or in Ok with an exit status that
\* is a failure or a success: only Err is fatal, the exit status of
\* Ok(Output) is never read.
RunCommand(program, next_phase) ==
    \E outcome \in {"not started", "failure", "success"} :
        /\ commands' = Append(commands, [program |-> program, outcome |-> outcome])
        /\ phase' = IF outcome = "not started" THEN "panic" ELSE next_phase
        /\ fault' = IF outcome = "not started" THEN program ELSE fault

\* Command::new("fasm").arg(output_file + ".asm").output().unwrap()
RunAssembler ==
    /\ phase = "generated"
    /\ RunCommand("fasm", "assembled")
    /\ UNCHANGED <<buffer, current_position, is_line_start, words, current_word,
                   tokens, current_token, nodes, scope, writer, stdout,
                   node_cursor, overflow_checks, mode>>

\* if mode == RunMode::Linked { Command::new("ld")...output().unwrap(); .. }
\* The Command "mov" built after it is never run.
RunLinker ==
    /\ phase = "assembled"
    /\ mode = "Linked"
    /\ RunCommand("ld", "linked")
    /\ UNCHANGED <<buffer, current_position, is_line_start, words, current_word,
                   tokens, current_token, nodes, scope, writer, stdout,
                   node_cursor, overflow_checks, mode>>

\* main returns.
MainReturn ==
    /\ \/ phase = "assembled" /\ mode = "Object"
       \/ phase = "linked"
    /\ phase' = "done"
    /\ UNCHANGED <<buffer, current_position, is_line_start, words, current_word,
                   tokens, current_token, nodes, scope, writer, stdout,
                   node_cursor, overflow_checks, mode, commands, fault>>

Next ==
    \/ LexStep
    \/ LexReturn
    \/ TokenizeStep
    \/ TokenizeReturn
    \/ ParseStep
    \/ ParseReturn
    \/ GeneratePrelude
    \/ GenerateStep
    \/ GenerateReturn
    \/ RunAssembler
    \/ RunLinker
    \/ MainReturn

Spec == Init /\ [][Next]_vars

(***************************************************************************)
(* The parser alone: Parser { tokens, current_token: 0, nodes: [] } built  *)
(* over a token vector `o weka e <operand> (<operator> <operand>)*`, for   *)
(* all seven operator tokens parse_expression matches.                     *)
(***************************************************************************)
ExprOperand(i) ==
    IF i % 2 = 1 THEN TokNumber(<<DigitChar(i)>>)
    ELSE TokName(<<CASE i = 2 -> "b" [] i = 4 -> "d" [] OTHER -> "z">>)

ExprTokens(ops) ==
    [i \in 1..(2 * Len(ops) + 1) |->
        IF i % 2 = 1 THEN ExprOperand((i + 1) \div 2) ELSE Tok(ops[i \div 2])]

InitParser ==
    /\ \E ops \in SeqsUpTo(BinaryTokens, MaxOps) :
           tokens = <<Tok("OWeka"), Tok("E")>> \o ExprTokens(ops)
    /\ buffer = <<>>
    /\ current_position = 0
    /\ is_line_start = TRUE
    /\ words = <<>>
    /\ current_word = 0
    /\ current_token = 0
    /\ nodes = <<>>
    /\ scope = NoScope
    /\ writer = <<>>
    /\ stdout = <<>>
    /\ node_cursor = 0
    /\ overflow_checks = FALSE
    /\ mode = "Object"
    /\ commands = <<>>
    /\ phase = "parse"
    /\ fault = ""

NextParser ==
    \/ ParseStep
    \/ ParseReturn

SpecParser == InitParser /\ [][NextParser]_vars

(***************************************************************************)
(* The parser and the generator on a program: the state of main when       *)
(* Abstracter::tokenize has returned on one of ProgramSources.             *)
(***************************************************************************)
\* Lexer::lex and Abstracter::tokenize on a text, from the structs main
\* builds.
FrontEnd(text, lexed) ==
    [buffer |-> text, lexed |-> lexed, tokenized |-> tokenize(lexed.val, 0, <<>>)]

ProgramFrontEnds == { FrontEnd(text, lex(text, 0, TRUE, <<>>)) : text \in ProgramSources }

InitGenerator ==
    /\ \E front \in ProgramFrontEnds :
           /\ front.lexed.st = "ok"
           /\ front.tokenized.st = "ok"
           /\ buffer = front.buffer
           /\ is_line_start = front.lexed.line_start
           /\ words = front.lexed.val
           /\ tokens = front.tokenized.val
    /\ current_position = Len(buffer)
    /\ current_word = Len(words)
    /\ current_token = 0
    /\ nodes = <<>>
    /\ scope = NoScope
    /\ writer = <<>>
    /\ stdout = <<>>
    /\ node_cursor = 0
    /\ overflow_checks = FALSE
    /\ mode = "Object"
    /\ commands = <<>>
    /\ phase = "parse"
    /\ fault = ""

NextGenerator ==
    \/ ParseStep
    \/ ParseReturn
    \/ GeneratePrelude
    \/ GenerateStep
    \/ GenerateReturn

SpecGenerator == InitGenerator /\ [][NextGenerator]_vars

(***************************************************************************)
(* The parser and the generator on the expressions parse_expression can    *)
(* build: the token vector of `o sin e nanpa b`, `o sin e nanpa d` and      *)
(* then `o weka e <expression>` or `b li kama sama <expression>`, the       *)
(* expression as for the parser alone.                                     *)
(***************************************************************************)
DeclarationTokens(name) == <<Tok("OSin"), Tok("Nanpa"), TokName(name)>>

StatementTokens ==
    { <<Tok("OWeka"), Tok("E")>>, <<TokName(<<"b">>), Tok("LiKamaSama")>> }

InitExpression ==
    /\ \E ops \in SeqsUpTo(BinaryTokens, MaxOps), statement \in StatementTokens :
           tokens = DeclarationTokens(<<"b">>) \o DeclarationTokens(<<"d">>)
                        \o statement \o ExprTokens(ops)
    /\ buffer = <<>>
    /\ current_position = 0
    /\ is_line_start = TRUE
    /\ words = <<>>
    /\ current_word = 0
    /\ current_token = 0
    /\ nodes = <<>>
    /\ scope = NoScope
    /\ writer = <<>>
    /\ stdout = <<>>
    /\ node_cursor = 0
    /\ overflow_checks = FALSE
    /\ mode = "Object"
    /\ commands = <<>>
    /\ phase = "parse"
    /\ fault = ""

NextExpression ==
    \/ ParseStep
    \/ ParseReturn
    \/ GeneratePrelude
    \/ GenerateStep
    \/ GenerateReturn

SpecExpression == InitExpression /\ [][NextExpression]_vars

(***************************************************************************)
(* Properties                                                              *)
(***************************************************************************)
\* Generator::generate has returned.
GenerationEnded ==
    \/ phase \in {"generated", "assembled", "linked", "done"}
    \/ phase = "panic" /\ fault \in {"fasm", "ld"}

RecognizedChars ==
    Letters \cup Digits \cup {"_", QUOTE, " ", TAB, NL, "\r"}
    \cup { p[1] : p \in PunctuationTable }

AllRecognized(buf) == \A i \in 1..Len(buf) : buf[i] \in RecognizedChars

\* The lines `mov r8, v`, `push r8`, a blank line, the exit comment,
\* `pop qword rdi`, `mov rax, qword 60`, `syscall` stand in the output one
\* after the other: the program leaves through the exit call with v in rdi.
ExitsWith(out, v) ==
    \E i \in 1..Len(out) :
        /\ i + 6 <= Len(out)
        /\ out[i] = Ins("mov", "r8", "", "imm", v, <<>>)
        /\ out[i + 1] = Ins("push", "", "", "r8", 0, <<>>)
        /\ out[i + 2] = BlankLine
        /\ out[i + 3] = Ins(";", "", "", "Exit call:", 0, <<>>)
        /\ out[i + 4] = Ins("pop", "rdi", "qword", "", 0, <<>>)
        /\ out[i + 5] = Ins("mov", "rax", "qword", "60", 0, <<>>)
        /\ out[i + 6] = Ins("syscall", "", "", "", 0, <<>>)

\* C1: the source `o tawa wan luka.` passes the lexer, the phrase assembler,
\* the parser and the generator without a fatal error, and the program
\* written out leaves through the exit system call with 6 in rdi.
C1_OTawaWanLukaExitsSix ==
    buffer = Src_OTawaWanLuka =>
        /\ phase = "panic" => fault \in {"fasm", "ld"}
        /\ GenerationEnded => ExitsWith(writer, 6)

\* C2: Lexer::lex terminates on every finite source: every iteration of its
\* main loop advances current_position or aborts (also on `"`), it aborts
\* only when the source holds a character outside the recognized set, and it
\* returns only when every character is in that set.
C2_LexerTerminates ==
    /\ [][(phase = "lex" /\ current_position < Len(buffer))
            => (current_position' > current_position \/ phase' = "panic")]_vars
    /\ [](fault = "lex" => ~AllRecognized(buffer))
    /\ []((phase # "lex" /\ fault # "lex") => AllRecognized(buffer))

Src_OTawa == Join(<<lx_o, lx_tawa>>)

\* C3: lexing `o tawa` and phrase-assembling the words yields exactly one
\* token, OTawa, and never a call introducer followed by a name token.
C3_OTawaIsOneToken ==
    buffer = Src_OTawa =>
        /\ \A i \in 1..Len(tokens) : tokens[i].k \notin {"O", "Name"}
        /\ fault # "tokenize"
        /\ (phase \in {"parse", "generate"} \/ GenerationEnded) => tokens = <<Tok("OTawa")>>

IsNumeral(w) == w.k \in {"Wan", "Tu", "Luka"}

\* The last word of the maximal run of numerals that starts after cursor cw.
RunEnd(ws, cw) ==
    CHOOSE j \in (cw + 1)..Len(ws) :
        /\ \A i \in (cw + 1)..j : IsNumeral(ws[i])
        /\ j = Len(ws) \/ ~IsNumeral(ws[j + 1])

CountIn(ws, from, to, kind) == Cardinality({ i \in from..to : ws[i].k = kind })

RunValue(ws, from, to) ==
    CountIn(ws, from, to, "Wan") + 2 * CountIn(ws, from, to, "Tu")
    + 5 * CountIn(ws, from, to, "Luka")

AtWord(kinds) ==
    /\ phase = "tokenize"
    /\ current_word < Len(words)
    /\ words[current_word + 1].k \in kinds

\* C4: when the cursor of the phrase assembler sits on wan, tu or luka, the
\* run there is maximal, and the step replaces it by exactly one Number token
\* whose decimal text has the value (#wan)*1 + (#tu)*2 + (#luka)*5 and leaves
\* the cursor just past the run.
C4_NumeralFolding ==
    [][AtWord({"Wan", "Tu", "Luka"}) =>
        LET j == RunEnd(words, current_word)
        IN /\ current_word = 0 \/ ~IsNumeral(words[current_word])
           /\ phase' = "tokenize"
           /\ current_word' = j
           /\ Len(tokens') = Len(tokens) + 1
           /\ SubSeq(tokens', 1, Len(tokens)) = tokens
           /\ LET t == tokens'[Len(tokens')]
              IN /\ t.k = "Number"
                 /\ IsDecimal(t.v)
                 /\ Len(t.v) = 1 \/ t.v[1] # "0"
                 /\ FromDecimal(t.v) = RunValue(words, current_word + 1, j)
    ]_vars

\* C4 witness: `luka luka tu` has been folded into the one token Number("12").
C4_Witness ==
    /\ phase = "tokenize"
    /\ Len(words) >= 3
    /\ <<words[1].k, words[2].k, words[3].k>> = <<"Luka", "Luka", "Tu">>
    /\ current_word = 3
    /\ tokens = <<TokNumber(<<"1", "2">>)>>

\* The multi-word idioms: the words of each and its composite token.
Idioms ==
    { [ws |-> <<"O", "Tawa">>, token |-> "OTawa"],
      [ws |-> <<"O", "Sin", "E">>, token |-> "OSin"],
      [ws |-> <<"O", "Weka">>, token |-> "OWeka"],
      [ws |-> <<"O", "Pini">>, token |-> "OPini"],
      [ws |-> <<"Tenpo", "Pi">>, token |-> "TenpoPi"],
      [ws |-> <<"Tenpo", "Ale", "Pi">>, token |-> "TenpoAlePi"],
      [ws |-> <<"Li", "Kama", "Sama">>, token |-> "LiKamaSama"],
      [ws |-> <<"Li", "Kepeken">>, token |-> "LiKepeken"],
      [ws |-> <<"Li", "Pali", "E", "Ni">>, token |-> "LiPaliENi"],
      [ws |-> <<"Li", "Pana", "E">>, token |-> "LiPanaE"] }

\* C5: a step of the phrase assembler at an `o`, `li` or `tenpo` word either
\* aborts, or consumes exactly the words of one listed idiom and emits its
\* token (for `o <identifier>`: consumes the `o` alone and emits the call
\* introducer); it never consumes the leading word without a token and never
\* emits a token for a partial match.
C5_PartialIdiomIsFatal ==
    [][AtWord({"O", "Li", "Tenpo"}) =>
        \/ phase' = "panic" /\ tokens' = tokens
        \/ /\ phase' = "tokenize"
           /\ current_word' > current_word
           /\ \E idiom \in Idioms :
                /\ [i \in 1..(current_word' - current_word) |-> words[current_word + i].k]
                       = idiom.ws
                /\ tokens' = Append(tokens, Tok(idiom.token))
        \/ /\ phase' = "tokenize"
           /\ words[current_word + 1].k = "O"
           /\ AbsExpect(words, current_word + 1, "Name")
           /\ current_word' = current_word + 1
           /\ tokens' = Append(tokens, Tok("O"))
    ]_vars

StandaloneWordKinds ==
    {"E", "En", "La", "Pali", "Nanpa", "Linja", "Awen", "Kepeken", "A",
     "Semicolon", "OpenParenthesis", "CloseParenthesis", "Comma", "Colon",
     "Equals", "LessThan", "GreaterThan", "Plus", "Minus", "Star", "Period",
     "ForwardSlash"}

\* C6: a step of the phrase assembler at one of the standalone words (e, en,
\* la, pali, nanpa, linja, awen, kepeken, a, and every punctuation and
\* arithmetic word of the lexer) consumes that word and emits exactly one
\* token, the one of the same name, without a fatal error.
C6_StandalonePassThrough ==
    [][AtWord(StandaloneWordKinds) =>
        /\ phase' = "tokenize"
        /\ current_word' = current_word + 1
        /\ tokens' = Append(tokens, Tok(words[current_word + 1].k))
    ]_vars

(***************************************************************************)
(* A reference expression parser: split at the rightmost operator of the   *)
(* lowest level present.                                                   *)
(***************************************************************************)
RefLevel(token_kind) ==
    CASE token_kind \in {"LessThan", "GreaterThan", "Equals"} -> 1
      [] token_kind \in {"Plus", "Minus"} -> 2
      [] token_kind \in {"Star", "ForwardSlash"} -> 3

RefKind(token_kind) ==
    CASE token_kind = "LessThan" -> "LessThan" [] token_kind = "GreaterThan" -> "GreaterThan"
      [] token_kind = "Equals" -> "Equals" [] token_kind = "Plus" -> "Add"
      [] token_kind = "Minus" -> "Subtract" [] token_kind = "Star" -> "Multiply"
      [] token_kind = "ForwardSlash" -> "Divide"

RefOperand(token) ==
    IF token.k = "Number" THEN NanpaExpression(FromDecimal(token.v))
    ELSE NimiExpression(token.v)

RECURSIVE RefTree(_)
RefTree(ts) ==
    IF Len(ts) = 1 THEN RefOperand(ts[1])
    ELSE LET ops == { i \in 1..Len(ts) : ts[i].k \in BinaryTokens }
             lowest == CHOOSE i \in ops : \A j \in ops : RefLevel(ts[i].k) <= RefLevel(ts[j].k)
             m == CHOOSE i \in ops :
                     /\ RefLevel(ts[i].k) = RefLevel(ts[lowest].k)
                     /\ \A j \in ops : RefLevel(ts[j].k) = RefLevel(ts[lowest].k) => j <= i
         IN BinaryExpression(RefKind(ts[m].k),
                RefTree(SubSeq(ts, 1, m - 1)), RefTree(SubSeq(ts, m + 1, Len(ts))))

\* C7: for operands separated by binary operators, parse_expression(Undefined)
\* consumes them all and builds the tree of the reference parser: comparing
\* below linear below scaling, every operator left-associative.
C7_PrecedenceClimbing ==
    /\ phase # "panic"
    /\ phase = "generate" => Len(nodes) = 1
    /\ Len(nodes) = 1 =>
        /\ nodes[1] = OWekaStatement(Some(RefTree(SubSeq(tokens, 3, Len(tokens)))))
        /\ current_token = Len(tokens)

\* C7 witness: `1 - b - 3 < d` has been parsed as LessThan(Sub(Sub(1, b), 3), d).
C7_Witness ==
    /\ Len(nodes) = 1
    /\ nodes[1].expr =
         <<BinaryExpression("LessThan",
              BinaryExpression("Subtract",
                  BinaryExpression("Subtract", NanpaExpression(1), NimiExpression(<<"b">>)),
                  NanpaExpression(3)),
              NimiExpression(<<"d">>))>>

\* The parser has been handed the complete token vector.
ParsingStarted ==
    \/ phase \in {"parse", "generate"}
    \/ GenerationEnded
    \/ phase = "panic" /\ fault \in {"parse", "generate"}

\* The first statement has been parsed / has been refused.
FirstParsed == ParsingStarted /\ Len(nodes) >= 1
FirstRefused == phase = "panic" /\ fault = "parse" /\ nodes = <<>>

(***************************************************************************)
(* Calls: `o <name>` then tokens of operands, operators, `e` and `a`.      *)
(***************************************************************************)
CallShaped(ts) ==
    /\ Len(ts) >= 2
    /\ ts[1].k = "O"
    /\ ts[2].k = "Name"
    /\ \A i \in 3..Len(ts) :
          /\ ts[i].k \in {"E", "A", "Number", "Name"} \cup BinaryTokens
          /\ ts[i].k = "Number" => IsDecimal(ts[i].v)

\* s is a sequence of groups `e <operand> (<operator> <operand>)*`.
GroupsOk(s) ==
    /\ Len(s) % 2 = 0
    /\ Len(s) > 0 => s[1].k = "E"
    /\ \A j \in 1..Len(s) :
          IF j % 2 = 1 THEN s[j].k \in {"E"} \cup BinaryTokens
          ELSE s[j].k \in {"Number", "Name"}

\* The position of the first `a` after the callee name (0 if there is none).
FirstA(ts) ==
    IF \E p \in 3..Len(ts) : ts[p].k = "A"
    THEN CHOOSE p \in 3..Len(ts) : ts[p].k = "A" /\ \A i \in 3..(p - 1) : ts[i].k # "A"
    ELSE 0

RefCallAccepts(ts) == FirstA(ts) # 0 /\ GroupsOk(SubSeq(ts, 3, FirstA(ts) - 1))

\* The arguments of well-formed groups s, in source order: the reference
\* tree of the tokens between one `e` and the next.
RefParams(s) ==
    LET es == { j \in 1..Len(s) : s[j].k = "E" }
        nth(i) == CHOOSE j \in es : Cardinality({ x \in es : x <= j }) = i
        stop(i) == IF i = Cardinality(es) THEN Len(s) ELSE nth(i + 1) - 1
    IN [i \in 1..Cardinality(es) |-> RefTree(SubSeq(s, nth(i) + 1, stop(i)))]

\* C8: parse_o accepts a call exactly when the callee name is followed by
\* zero or more `e <expression>` groups and then `a`; any other token or the
\* end of input there is fatal.  The accepted node holds the arguments in
\* source order, and the cursor is left just past the `a`.
C8_CallNeedsA ==
    CallShaped(tokens) =>
        /\ FirstRefused => ~RefCallAccepts(tokens)
        /\ FirstParsed =>
              /\ RefCallAccepts(tokens)
              /\ nodes[1] = OExpression(tokens[2].v,
                                RefParams(SubSeq(tokens, 3, FirstA(tokens) - 1)))
        /\ (phase = "parse" /\ Len(nodes) = 1) =>
              /\ current_token = FirstA(tokens)
              /\ tokens[current_token].k = "A"

\* C8 witness: `o f e x e wan a` has been parsed into a call of f with the
\* arguments x, 1 in that order, the cursor on the token after `a`.
C8_Witness ==
    /\ phase = "parse"
    /\ Len(tokens) = 7
    /\ CallShaped(tokens)
    /\ current_token = 7
    /\ nodes = <<OExpression(<<"f">>, <<NimiExpression(<<"x">>), NanpaExpression(1)>>)>>

(***************************************************************************)
(* Function headers: `pali <name>`, then at most one `li pana e <type>`    *)
(* and at most one `li kepeken <type> <name> (en <type> <name>)*`, in      *)
(* either order.                                                           *)
(***************************************************************************)
KindAt(ts, i) == IF i >= 1 /\ i <= Len(ts) THEN ts[i].k ELSE "EOF"

TypeName(token_kind) == IF token_kind = "Nanpa" THEN "nanpa" ELSE "linja"

PanaAt(ts, i) == KindAt(ts, i) = "LiPanaE" /\ KindAt(ts, i + 1) \in {"Nanpa", "Linja"}

\* The number of (type, name) pairs of a `li kepeken` clause at i (0: none).
PairsAt(ts, i) ==
    IF KindAt(ts, i) # "LiKepeken" THEN 0
    ELSE LET ok(n) == \A m \in 0..(n - 1) :
                         /\ KindAt(ts, i + 3 * m + 1) \in {"Nanpa", "Linja"}
                         /\ KindAt(ts, i + 3 * m + 2) = "Name"
                         /\ m > 0 => KindAt(ts, i + 3 * m) = "En"
             fits == { n \in 0..Len(ts) : ok(n) }
         IN CHOOSE n \in fits : \A x \in fits : x <= n

RefPairs(ts, i) ==
    [m \in 1..PairsAt(ts, i) |-> <<TypeName(ts[i + 3 * m - 2].k), ts[i + 3 * m - 1].v>>]

\* The header read off the tokens: where it ends, its parameters, its type.
RefHeader(ts) ==
    IF PanaAt(ts, 3) THEN
        IF PairsAt(ts, 5) > 0
        THEN [end |-> 4 + 3 * PairsAt(ts, 5), params |-> RefPairs(ts, 5),
              retval |-> Some(TypeName(ts[4].k))]
        ELSE [end |-> 4, params |-> <<>>, retval |-> Some(TypeName(ts[4].k))]
    ELSE IF PairsAt(ts, 3) > 0 THEN
        LET e == 2 + 3 * PairsAt(ts, 3)
        IN IF PanaAt(ts, e + 1)
           THEN [end |-> e + 2, params |-> RefPairs(ts, 3),
                 retval |-> Some(TypeName(ts[e + 2].k))]
           ELSE [end |-> e, params |-> RefPairs(ts, 3), retval |-> None]
    ELSE [end |-> 2, params |-> <<>>, retval |-> None]

PaliShaped(ts) == KindAt(ts, 1) = "Pali" /\ KindAt(ts, 2) = "Name"

\* C9: a `pali <name>` header with its optional clauses yields a function
\* definition when `li pali e ni` follows it, and otherwise, whether another
\* token or the end of input follows, an external declaration with the
\* parsed name, parameters and return type, without a fatal error.
C9_HeaderWithoutBodyDeclares ==
    (ParsingStarted /\ PaliShaped(tokens)) =>
        LET h == RefHeader(tokens)
        IN IF KindAt(tokens, h.end + 1) = "LiPaliENi"
           THEN FirstParsed =>
                   /\ nodes[1].k = "Pali"
                   /\ nodes[1].nimi = tokens[2].v
                   /\ nodes[1].params = h.params
                   /\ nodes[1].retval = h.retval
           ELSE /\ ~FirstRefused
                /\ FirstParsed =>
                      nodes[1] = PaliDeclaration(tokens[2].v, h.params, h.retval)

\* The statements parse_pali read between `li pali e ni` and `o pini`.
RawBody(ts) == PaliBody(ts, RefHeader(ts).end + 1, <<>>).val

IsOWeka(node) == node.k = "OWeka"

FirstIsDefinition == FirstParsed /\ PaliShaped(tokens) /\ nodes[1].k = "Pali"

\* C10 as claimed: the last statement of every parsed function body is a
\* return-from-function; the parser appends one exactly when the last parsed
\* statement is not one.
C10_LastStatementIsReturn ==
    /\ \A i \in 1..Len(nodes) :
          nodes[i].k = "Pali" =>
              /\ Len(nodes[i].nodes) >= 1
              /\ IsOWeka(nodes[i].nodes[Len(nodes[i].nodes)])
    /\ FirstIsDefinition =>
          LET raw == RawBody(tokens)
          IN nodes[1].nodes =
                IF Len(raw) >= 1 /\ IsOWeka(raw[Len(raw)]) THEN raw
                ELSE Append(raw, OWekaStatement(None))

\* C10 as amended: every parsed function body holds a return-from-function
\* among its own statements; the parser appends one, at the end, exactly
\* when no statement of the parsed body is one.
C10_BodyHoldsReturn ==
    /\ \A i \in 1..Len(nodes) :
          nodes[i].k = "Pali" =>
              \E j \in 1..Len(nodes[i].nodes) : IsOWeka(nodes[i].nodes[j])
    /\ FirstIsDefinition =>
          LET raw == RawBody(tokens)
          IN nodes[1].nodes =
                IF \E j \in 1..Len(raw) : IsOWeka(raw[j]) THEN raw
                ELSE Append(raw, OWekaStatement(None))

\* C10 witness: the body `o g a` of `pali f li pali e ni o g a o pini` has
\* been given the implicit return.
C10_Witness ==
    /\ FirstIsDefinition
    /\ nodes[1].nodes = <<OExpression(<<"g">>, <<>>), OWekaStatement(None)>>


(***************************************************************************)
(* The external commands                                                   *)
(***************************************************************************)
Ran(program) == { i \in 1..Len(commands) : commands[i].program = program }

\* C17: an assembler run that could not be started or that finished with a
\* failure status is fatal and no linker run follows it, and a linker run
\* that could not be started or that finished with a failure status is fatal.
C17_FailedCommandIsFatal ==
    \A i \in 1..Len(commands) :
        commands[i].outcome # "success" =>
            /\ phase = "panic"
            /\ commands[i].program = "fasm" => Ran("ld") = {}


(***************************************************************************)
(* The instructions of a function                                          *)
(***************************************************************************)
\* Generator::generate has just generated the function nodes[node_cursor]
\* without a fatal error: its lines are the last ones of the writer.
FunctionGenerated ==
    /\ phase \in {"generate", "generated"}
    /\ node_cursor >= 1
    /\ nodes[node_cursor].k = "Pali"

\* The line `<nimi>:` of the function generated last.
FunctionLabel(out, nimi) ==
    CHOOSE p \in 1..Len(out) :
        /\ out[p] = Ins("label", "", "", "", 0, nimi)
        /\ \A q \in (p + 1)..Len(out) : out[q] # out[p]

\* The line `.endif_<n>:`, or 0 when the output has none.
EndifLine(out, n) ==
    IF \E p \in 1..Len(out) : out[p] = Ins("label", "", "", ".endif", n, <<>>)
    THEN CHOOSE p \in 1..Len(out) : out[p] = Ins("label", "", "", ".endif", n, <<>>)
    ELSE 0

\* Every path of control from line i on reaches a `ret` before it runs off
\* the end of the lines; a `je` is followed both ways.  (The generator
\* writes each label after the jump to it, so the recursion ends.)
RECURSIVE PathsEndInRet(_, _)
PathsEndInRet(out, i) ==
    IF i < 1 \/ i > Len(out) THEN FALSE
    ELSE IF out[i].op = "ret" THEN TRUE
    ELSE IF out[i].op = "je"
    THEN /\ EndifLine(out, out[i].n) > i
         /\ PathsEndInRet(out, EndifLine(out, out[i].n))
         /\ PathsEndInRet(out, i + 1)
    ELSE PathsEndInRet(out, i + 1)

\* C11: for every function definition generated without a fatal error,
\* every control-flow path through the instructions written for it, taking
\* both outcomes of each `je .endif_N`, ends in a `ret`.
C11_EveryPathReturns ==
    FunctionGenerated =>
        PathsEndInRet(writer, FunctionLabel(writer, nodes[node_cursor].nimi))

\* A function with a conditional has been generated: one `ret` inside the
\* conditional, one after it.
C11_Witness ==
    /\ FunctionGenerated
    /\ \E i, j, k \in 1..Len(writer) :
           /\ FunctionLabel(writer, nodes[node_cursor].nimi) < i
           /\ i < j /\ j < k
           /\ writer[i].op = "je"
           /\ writer[j].op = "ret"
           /\ k = EndifLine(writer, writer[i].n)


(***************************************************************************)
(* The frame of a function: what the generator keeps in stack_pointer and  *)
(* what the written instructions do to rsp.                                *)
(***************************************************************************)
\* Generator::generate is about to generate the function
\* nodes[node_cursor + 1] of a program that it generates to the end
\* without a fatal error.
FunctionNext ==
    /\ phase = "generate"
    /\ writer # <<>>
    /\ node_cursor < Len(nodes)
    /\ nodes[node_cursor + 1].k = "Pali"
    /\ generate(nodes, overflow_checks).st = "ok"

\* The states of the generator between the top-level statements of a body:
\* before body[i], and so on up to the statement that returns.
RECURSIVE Boundaries(_, _, _)
RECURSIVE BoundariesAfter(_, _, _)
Boundaries(g, body, i) ==
    IF g.st # "ok" THEN <<>>
    ELSE IF i > Len(body) THEN <<g>>
    ELSE <<g>> \o BoundariesAfter(generate_node(g, body[i]), body, i)

BoundariesAfter(next, body, i) ==
    IF next.st # "ok" \/ next.ret THEN <<>> ELSE Boundaries(next, body, i + 1)

\* The boundaries of the function generated next, from its prologue on.
FunctionBoundaries ==
    Boundaries(PaliPrologue(GeneratorState, nodes[node_cursor + 1]),
               nodes[node_cursor + 1].nodes, 1)

\* The last line `mov rbp, rsp` of the output.
FrameLine(out) ==
    CHOOSE p \in 1..Len(out) :
        /\ out[p] = Ins("mov", "rbp", "", "rsp", 0, <<>>)
        /\ \A q \in (p + 1)..Len(out) : out[q] # out[p]

WordBytes(word) ==
    CASE word = "byte" -> 1 [] word = "word" -> 2 [] word = "dword" -> 4 [] OTHER -> 8

\* The bytes by which rsp lies below its value before line i of the
\* output when execution, started at line i with rsp `below` bytes down,
\* arrives past line `to`: one value for every path through the
\* conditional jumps, none for a path that returns before.
RECURSIVE RspBytes(_, _, _, _)
RspBytes(out, i, to, below) ==
    IF i > to THEN {below}
    ELSE LET line == out[i]
         IN CASE line.op = "ret" -> {}
              [] line.op = "je" ->
                     RspBytes(out, i + 1, to, below)
                         \cup RspBytes(out, EndifLine(out, line.n), to, below)
              [] line.op = "push" -> RspBytes(out, i + 1, to, below + WordBytes(line.word))
              [] line.op = "pop" -> RspBytes(out, i + 1, to, below - WordBytes(line.word))
              [] line.op = "add" /\ line.dst = "rsp" -> RspBytes(out, i + 1, to, below - line.n)
              [] line.op = "sub" /\ line.dst = "rsp" -> RspBytes(out, i + 1, to, below + line.n)
              [] OTHER -> RspBytes(out, i + 1, to, below)

\* C12: during the generation of an accepted program, at every boundary
\* between the top-level statements of a function the stack_pointer of the
\* function's Environment (the only live one of the function there) equals
\* the bytes by which the instructions written since the function's
\* `mov rbp, rsp` have moved rsp down.
C12_StackPointerTracksRsp ==
    FunctionNext =>
        \A k \in 1..Len(FunctionBoundaries) :
            LET g == FunctionBoundaries[k]
            IN RspBytes(g.out, FrameLine(g.out) + 1, Len(g.out), 0)
                   = {g.envs[Len(g.envs)].stack_pointer}

\* The bytes between rbp and the slot the k-th parameter push of the
\* prologue writes.
ParameterSlot(g, k) ==
    LET pushes == { p \in (FrameLine(g.out) + 1)..Len(g.out) : g.out[p].op = "push" }
        kth == CHOOSE p \in pushes : Cardinality({ q \in pushes : q <= p }) = k
    IN RspBytes(g.out, FrameLine(g.out) + 1, kth, 0)

DistinctParameters(params) ==
    \A i, j \in 1..Len(params) : i # j => params[i][2] # params[j][2]

\* C18: in a function with parameters p0, p1, ... of distinct names, at
\* every boundary between the top-level statements of the body a reference
\* to p_i resolves, by get_variable, to the displacement 8 * (i + 1), which
\* is the slot the i-th push of the prologue stored the argument in.
C18_ParameterDisplacement ==
    FunctionNext /\ DistinctParameters(nodes[node_cursor + 1].params) =>
        \A k \in 1..Len(FunctionBoundaries) :
            \A i \in 1..Len(nodes[node_cursor + 1].params) :
                LET g == FunctionBoundaries[k]
                    variable == get_variable(g, nodes[node_cursor + 1].params[i][2])
                IN /\ variable.st = "ok"
                   /\ ParameterSlot(g, i) = {8 * i}
                   /\ variable.offset = 8 * i


(***************************************************************************)
(* Calls.                                                                  *)
(***************************************************************************)
\* Generator::generate is about to generate the statement
\* nodes[node_cursor + 1], a call of a function the scope knows, and the
\* type of every argument expression can be told.
CallNext ==
    /\ phase = "generate"
    /\ writer # <<>>
    /\ node_cursor < Len(nodes)
    /\ nodes[node_cursor + 1].k = "O"
    /\ nodes[node_cursor + 1].nimi \in DOMAIN scope.functions
    /\ ArgumentTypes(GeneratorState, nodes[node_cursor + 1].params, 1, <<>>).st = "ok"

CallTypesMatch ==
    ArgumentTypes(GeneratorState, nodes[node_cursor + 1].params, 1, <<>>).val
        = scope.functions[nodes[node_cursor + 1].nimi].parameter_types

\* The `call` line of the function named nimi.
CallLine(nimi) == Ins("call", "", "", "", 0, nimi)

\* C13: generating a call whose vector of argument types differs from the
\* parameter types of the callee, in its length or in an element, is fatal;
\* when the two vectors are equal the generator goes on and writes the
\* `call` line of the callee.
C13_ArgumentTypesChecked ==
    [][CallNext =>
          IF CallTypesMatch
          THEN /\ phase' # "panic"
               /\ \E p \in (Len(writer) + 1)..Len(writer') :
                      writer'[p] = CallLine(nodes[node_cursor + 1].nimi)
          ELSE /\ phase' = "panic"
               /\ fault' = "generate"
               /\ \A p \in (Len(writer) + 1)..Len(writer') :
                      writer'[p] # CallLine(nodes[node_cursor + 1].nimi)]_vars

\* A call with two arguments or more, one of them a binary expression, has
\* been generated for a callee of as many parameters.
C13_Witness ==
    /\ phase \in {"generate", "generated"}
    /\ node_cursor >= 1
    /\ nodes[node_cursor].k = "O"
    /\ Len(nodes[node_cursor].params) >= 2
    /\ \E i \in 1..Len(nodes[node_cursor].params) : nodes[node_cursor].params[i].k = "Binary"
    /\ Len(scope.functions[nodes[node_cursor].nimi].parameter_types)
           = Len(nodes[node_cursor].params)
    /\ \E p \in 1..Len(writer) : writer[p] = CallLine(nodes[node_cursor].nimi)

\* A call has been refused because the number of its arguments is not the
\* number of the parameters of the callee.
C13_Refused ==
    /\ phase = "panic"
    /\ fault = "generate"
    /\ node_cursor < Len(nodes)
    /\ nodes[node_cursor + 1].k = "O"
    /\ nodes[node_cursor + 1].nimi \in DOMAIN scope.functions
    /\ Len(scope.functions[nodes[node_cursor + 1].nimi].parameter_types)
           # Len(nodes[node_cursor + 1].params)


(***************************************************************************)
(* Labels of conditionals.                                                 *)
(***************************************************************************)
IsTenpoComment(line) == line = Ins(";", "", "", "tenpo .. la", 0, <<>>)
IsEndifLabel(line) == line.op = "label" /\ line.src = ".endif"

\* The `; tenpo .. la` line of the conditional that a label line closes:
\* the lines are read backwards from p, `depth` conditionals that closed
\* in between still to be skipped.  0 if there is none.
RECURSIVE TenpoOpener(_, _, _)
TenpoOpener(out, p, depth) ==
    IF p < 1 THEN 0
    ELSE IF IsEndifLabel(out[p]) THEN TenpoOpener(out, p - 1, depth + 1)
    ELSE IF IsTenpoComment(out[p])
    THEN IF depth = 0 THEN p ELSE TenpoOpener(out, p - 1, depth - 1)
    ELSE TenpoOpener(out, p - 1, depth)

\* The first `je` after line p, the test of the conditional opened at p.
TenpoJump(out, p) ==
    CHOOSE q \in (p + 1)..Len(out) :
        /\ out[q].op = "je"
        /\ \A r \in (p + 1)..(q - 1) : out[r].op # "je"

EndifLabels(out) == { p \in 1..Len(out) : IsEndifLabel(out[p]) }

\* Every conditional that was closed has the index of its jump on its
\* label, and no two labels or two jumps share an index.
LabelsMatch(out) ==
    /\ \A c \in EndifLabels(out) :
           /\ TenpoOpener(out, c - 1, 0) > 0
           /\ out[TenpoJump(out, TenpoOpener(out, c - 1, 0))].n = out[c].n
           /\ TenpoJump(out, TenpoOpener(out, c - 1, 0)) < c
    /\ \A c, d \in EndifLabels(out) : c # d => out[c].n # out[d].n
    /\ \A p, q \in 1..Len(out) :
           out[p].op = "je" /\ out[q].op = "je" /\ p # q => out[p].n # out[q].n

\* C15: within one compilation the label counter never decreases; the
\* conditionals have pairwise distinct label indices; and the `je .endif_N`
\* and the `.endif_N:` written for one conditional carry the same N, also
\* when other conditionals were generated between the two lines.
C15_LabelCounter ==
    /\ []LabelsMatch(writer)
    /\ [][scope'.label_counter >= scope.label_counter]_vars

\* A conditional was generated between the jump and the label of another
\* one.
C15_Witness ==
    /\ phase = "generated"
    /\ \E c, d \in EndifLabels(writer) :
           /\ d < c
           /\ TenpoOpener(writer, c - 1, 0) < TenpoOpener(writer, d - 1, 0)
           /\ TenpoJump(writer, TenpoOpener(writer, c - 1, 0))
                  < TenpoOpener(writer, d - 1, 0)


(***************************************************************************)
(* Declarations.                                                           *)
(***************************************************************************)
\* Generator::generate is about to generate the function
\* nodes[node_cursor + 1].
PaliNext ==
    /\ phase = "generate"
    /\ writer # <<>>
    /\ node_cursor < Len(nodes)
    /\ nodes[node_cursor + 1].k = "Pali"

\* The names bound in the innermost Environment.
InnermostNames(g) == DOMAIN g.envs[Len(g.envs)].names

\* C14: a declaration of a name that the innermost Environment binds
\* already is fatal, a declaration of a name it does not bind is accepted.
\* Of a function: a parameter that repeats the name of an earlier parameter
\* stops the prologue, and at every boundary of the top level of the body an
\* `o sin` is fatal exactly when the function's Environment binds its name.
C14_RedeclarationIsFatal ==
    PaliNext =>
        /\ ~DistinctParameters(nodes[node_cursor + 1].params)
               => PaliPrologue(GeneratorState, nodes[node_cursor + 1]).st # "ok"
        /\ \A k \in 1..Len(FunctionBoundaries) :
               k <= Len(nodes[node_cursor + 1].nodes)
                   /\ nodes[node_cursor + 1].nodes[k].k = "OSin" =>
                   LET g == FunctionBoundaries[k]
                       o_sin == nodes[node_cursor + 1].nodes[k]
                   IN (generate_node(g, o_sin).st # "ok")
                          <=> (o_sin.name \in InnermostNames(g))


\* The orders in which the names of a set can have been declared.
DeclarationOrders(names) ==
    { order \in [1..Cardinality(names) -> names] :
          \A i, j \in 1..Cardinality(names) : i # j => order[i] # order[j] }

RECURSIVE SizesBefore(_, _, _, _)
SizesBefore(types, env, order, i) ==
    IF i <= 1 THEN 0
    ELSE SizesBefore(types, env, order, i - 1)
             + types[env.names[order[i - 1]].type_name].size

\* The stack_pos of every variable of env is the sum of the sizes of the
\* variables declared before it, in some order of declaration.
PrefixSums(types, env) ==
    \E order \in DeclarationOrders(DOMAIN env.names) :
        \A i \in 1..Len(order) :
            env.names[order[i]].stack_pos = SizesBefore(types, env, order, i)

\* C19: while the generator runs and when it has ended, in every
\* Environment of the scope the stack_pos of each variable is the sum of
\* the sizes of the variables declared before it in that Environment, so
\* that no two variables of it share a stack_pos.
C19_StackPosPrefixSums ==
    phase \in {"generate", "generated"} =>
    \A e \in 1..Len(scope.envs) :
        /\ PrefixSums(scope.types, scope.envs[e])
        /\ \A x, y \in DOMAIN scope.envs[e].names :
               x # y => scope.envs[e].names[x].stack_pos # scope.envs[e].names[y].stack_pos


(***************************************************************************)
(* Leading tabs.                                                           *)
(***************************************************************************)
IsOpeningTab(word) == word.k = "OpeningTab"
NotOpeningTab(word) == ~IsOpeningTab(word)

\* The phrase assembler, the parser and the generator run on the words ws:
\* whether all three accept, and the assembly text written if they do.
Compile(ws, checks) ==
    LET tokenized == tokenize(ws, 0, <<>>)
        parsed == IF tokenized.st = "ok" THEN parse(tokenized.val, 0, <<>>)
                  ELSE tokenized
        generated == IF parsed.st = "ok" THEN generate(parsed.val, checks)
                     ELSE [st |-> "panic", out |-> <<>>]
    IN [accepted |-> generated.st = "ok",
        out |-> IF generated.st = "ok" THEN generated.out ELSE <<>>]

\* The three stages have ended on the words of the lexer: the generator
\* returned, or one of the three stopped on a fatal error.
StagesEnded ==
    \/ phase = "generated"
    \/ phase = "panic" /\ fault \in {"tokenize", "parse", "generate"}

\* C16: the words of the lexer without the leading-tab words are accepted
\* by the phrase assembler, the parser and the generator if and only if the
\* words themselves are, and if they are the same assembly text is written.
C16_LeadingTabsInert ==
    StagesEnded =>
        /\ Compile(SelectSeq(words, NotOpeningTab), overflow_checks).accepted
               <=> (phase = "generated")
        /\ phase = "generated" =>
               Compile(SelectSeq(words, NotOpeningTab), overflow_checks).out = writer


(***************************************************************************)
(* The argument registers at a call: the written lines executed on values  *)
(* that are terms, <<"lit", n>> an integer, <<"mem", n>> the word at       *)
(* [rbp - n], <<"bin", kind, l, r>> the result of an operation, and        *)
(* <<"any", what>> a value no argument expression denotes.                 *)
(***************************************************************************)
Registers == {"rdi", "rsi", "rdx", "rcx", "r8", "r9", "rax"}
Lit(n) == <<"lit", n>>
Mem(n) == <<"mem", n>>
Bin(kind, l, r) == <<"bin", kind, l, r>>
Unknown(what) == <<"any", what>>

\* Registers of unknown contents, an empty part of the stack, no flags.
Machine0 == [regs |-> [r \in Registers |-> Unknown(r)], stack |-> <<>>, flags |-> Unknown("flags")]

\* One line executed.  `mul` and `div` write rdx as well as rax; `xor` of a
\* register with itself zeroes it, and a write of ecx zeroes the upper half
\* of rcx; `setz cl` after that leaves in rcx the outcome of the `cmp`.
ExecuteLine(m, line) ==
    CASE line.op = "mov" /\ line.src = "imm" ->
             [m EXCEPT !.regs[line.dst] = Lit(line.n)]
      [] line.op = "mov" /\ line.src \in Registers ->
             [m EXCEPT !.regs[line.dst] = m.regs[line.src]]
      [] line.op = "push" /\ line.src \in Registers ->
             [m EXCEPT !.stack = Append(@, m.regs[line.src])]
      [] line.op = "push" /\ line.src = "[rbp - n]" ->
             [m EXCEPT !.stack = Append(@, Mem(line.n))]
      [] line.op = "pop" /\ Len(m.stack) > 0 ->
             [m EXCEPT !.regs[line.dst] = m.stack[Len(m.stack)],
                       !.stack = SubSeq(@, 1, Len(@) - 1)]
      [] line.op = "pop" /\ Len(m.stack) = 0 ->
             [m EXCEPT !.regs[line.dst] = Unknown("stack")]
      [] line.op = "add" /\ line.dst \in Registers ->
             [m EXCEPT !.regs[line.dst] = Bin("Add", m.regs[line.dst], m.regs[line.src])]
      [] line.op = "sub" /\ line.dst \in Registers ->
             [m EXCEPT !.regs[line.dst] = Bin("Subtract", m.regs[line.dst], m.regs[line.src])]
      [] line.op = "mul" ->
             [m EXCEPT !.regs["rax"] = Bin("Multiply", m.regs["rax"], m.regs[line.src]),
                       !.regs["rdx"] = Unknown("high half")]
      [] line.op = "div" ->
             [m EXCEPT !.regs["rax"] = Bin("Divide", m.regs["rax"], m.regs[line.src]),
                       !.regs["rdx"] = Unknown("remainder")]
      [] line.op = "xor" /\ line.dst = "ecx" ->
             [m EXCEPT !.regs["rcx"] = Lit(0)]
      [] line.op = "xor" /\ line.dst \in Registers ->
             [m EXCEPT !.regs[line.dst] = Lit(0)]
      [] line.op = "cmp" ->
             [m EXCEPT !.flags = Bin("Equals", m.regs[line.dst], m.regs[line.src])]
      [] line.op = "setz" ->
             [m EXCEPT !.regs["rcx"] = m.flags]
      [] OTHER -> m

RECURSIVE Execute(_, _, _, _)
Execute(out, i, to, m) ==
    IF i > to THEN m ELSE Execute(out, i + 1, to, ExecuteLine(m, out[i]))

\* The value an argument expression denotes.
RECURSIVE ValueOf(_, _)
ValueOf(g, expression) ==
    CASE expression.k = "Nanpa" -> Lit(expression.value)
      [] expression.k = "Nimi" -> Mem(get_variable(g, expression.name).offset)
      [] expression.k = "Binary" ->
             Bin(expression.kind, ValueOf(g, expression.lhs), ValueOf(g, expression.rhs))
      [] OTHER -> Unknown("call")

\* The last line equal to `line`, 0 if there is none.
LastLine(out, line) ==
    IF \E p \in 1..Len(out) : out[p] = line
    THEN CHOOSE p \in 1..Len(out) :
             out[p] = line /\ \A q \in (p + 1)..Len(out) : out[q] # line
    ELSE 0

\* The statement just generated is a call, and its `call` line was written.
CallGenerated ==
    /\ phase \in {"generate", "generated"}
    /\ node_cursor >= 1
    /\ nodes[node_cursor].k = "O"
    /\ LastLine(writer, CallLine(nodes[node_cursor].nimi)) > 0

\* The machine when it arrives at the `call` line of the call just
\* generated, started where the lines of the call begin.
MachineAtCall ==
    Execute(writer,
            LastLine(writer, Ins(";", "", "", "o", 0, nodes[node_cursor].nimi)) + 1,
            LastLine(writer, CallLine(nodes[node_cursor].nimi)) - 1,
            Machine0)

\* C20: at the `call` line of a call with at most six arguments, literals,
\* variables and binary expressions, the register of every argument index
\* holds the value of the argument expression of that index.
C20_ArgumentRegisters ==
    CallGenerated /\ Len(nodes[node_cursor].params) <= 6 =>
        \A i \in 1..Len(nodes[node_cursor].params) :
            MachineAtCall.regs[get_argument_register(i - 1)]
                = ValueOf(GeneratorState, nodes[node_cursor].params[i])


(***************************************************************************)
(* Blocks: the lines between `; new scope` and `; end of scope`.           *)
(***************************************************************************)
IsNewScope(line) == line = Ins(";", "", "", "new scope", 0, <<>>)
IsEndOfScope(line) == line = Ins(";", "", "", "end of scope", 0, <<>>)

\* The `; new scope` line of the innermost block open after line p: the
\* lines are read backwards from p, `depth` blocks that closed in between
\* still to be skipped.  0 outside every block.
RECURSIVE ScopeOpener(_, _, _)
ScopeOpener(out, p, depth) ==
    IF p < 1 THEN 0
    ELSE IF IsEndOfScope(out[p]) THEN ScopeOpener(out, p - 1, depth + 1)
    ELSE IF IsNewScope(out[p])
    THEN IF depth = 0 THEN p ELSE ScopeOpener(out, p - 1, depth - 1)
    ELSE ScopeOpener(out, p - 1, depth)

\* The lines `add rsp, N` written at the exit of a block.
BlockExits(out) ==
    { p \in 1..Len(out) : out[p].op = "add" /\ out[p].dst = "rsp" }

\* The bytes by which the `sub rsp` lines of the block that exits at line p,
\* those of its inner blocks left out, lower rsp.
RECURSIVE OwnSubBytes(_, _, _)
OwnSubBytes(out, p, q) ==
    IF q >= p THEN 0
    ELSE OwnSubBytes(out, p, q + 1)
             + (IF out[q].op = "sub" /\ out[q].dst = "rsp"
                      /\ ScopeOpener(out, q - 1, 0) = ScopeOpener(out, p - 1, 0)
                THEN out[q].n ELSE 0)

\* C21: the N of the `add rsp, N` written where a conditional or a
\* parenthesized block exits is the number of bytes by which the `sub rsp`
\* lines written for the declarations of that block have lowered rsp.
C21_BlockExitRestoresRsp ==
    \A p \in BlockExits(writer) :
        /\ ScopeOpener(writer, p - 1, 0) > 0
        /\ writer[p].n = OwnSubBytes(writer, p, ScopeOpener(writer, p - 1, 0))


(***************************************************************************)
(* The states of the generator inside a node: at every boundary between    *)
(* statements of the node's body and of the bodies of the blocks in it.    *)
(***************************************************************************)
RECURSIVE InnerStates(_, _)
RECURSIVE InnerBody(_, _, _, _)
RECURSIVE InnerAfter(_, _, _, _)
InnerStates(g, node) ==
    IF g.st # "ok" THEN {}
    ELSE CASE node.k = "Pali" -> InnerBody(PaliPrologue(g, node), node.nodes, 1, TRUE)
           [] node.k = "Tenpo" -> InnerBody(TenpoPrologue(g, node), node.nodes, 1, TRUE)
           [] node.k = "Parenthesis" ->
                  InnerBody(new_scope(Emit(g, BlankLine)), node.nodes, 1, FALSE)
           [] OTHER -> {}

\* breaks: the loop over the body is left when a statement returns true.
InnerBody(g, body, i, breaks) ==
    IF g.st # "ok" THEN {}
    ELSE IF i > Len(body) THEN {g}
    ELSE {g} \cup InnerStates(g, body[i])
             \cup InnerAfter(generate_node(g, body[i]), body, i, breaks)

InnerAfter(next, body, i, breaks) ==
    IF next.st # "ok" \/ (breaks /\ next.ret) THEN {}
    ELSE InnerBody(next, body, i + 1, breaks)

\* The states inside the function generated next.
FunctionStates == InnerStates(GeneratorState, nodes[node_cursor + 1])

VariableNames == { lx_x, lx_y }

\* The innermost of the Environments 1..i that binds the name, 0 if none.
RECURSIVE FirstBinding(_, _, _)
FirstBinding(envs, i, name) ==
    IF i < 1 THEN 0
    ELSE IF name \in DOMAIN envs[i].names THEN i
    ELSE FirstBinding(envs, i - 1, name)

\* get_variable returns the Variable of the innermost Environment that
\* binds the name, and an error when none does.
FindsInnermost(g, name) ==
    IF FirstBinding(g.envs, Len(g.envs), name) = 0
    THEN get_variable(g, name).st = "err"
    ELSE /\ get_variable(g, name).st = "ok"
         /\ get_variable(g, name).type_name
                = g.envs[FirstBinding(g.envs, Len(g.envs), name)].names[name].type_name
         /\ get_variable(g, name).stack_pos
                = g.envs[FirstBinding(g.envs, Len(g.envs), name)].names[name].stack_pos

\* Two Environments of g bind the name to different Variables.
Shadows(g, name) ==
    \E i, j \in 1..Len(g.envs) :
        /\ i < j
        /\ name \in DOMAIN g.envs[i].names
        /\ name \in DOMAIN g.envs[j].names
        /\ g.envs[i].names[name] # g.envs[j].names[name]

\* C22: at every point inside a function get_variable finds a name in the
\* innermost Environment that binds it: the declaration of an inner block
\* while the block is open, the outer one again when the block is closed,
\* and an error only when no Environment binds the name.
C22_InnermostBindingWins ==
    PaliNext =>
        \A g \in FunctionStates : \A name \in VariableNames : FindsInnermost(g, name)

\* Inside the function generated next a block declares x though the function
\* binds x to another Variable, and the generator arrives at a later point
\* where the block is closed.
C22_Witness ==
    /\ PaliNext
    /\ \E g, h \in FunctionStates :
           /\ Shadows(g, lx_x)
           /\ Len(h.envs) < Len(g.envs)
           /\ Len(h.out) > Len(g.out)
           /\ SubSeq(h.out, 1, Len(g.out)) = g.out
           /\ lx_x \in DOMAIN h.envs[Len(h.envs)].names


\* The function's own Environment: the innermost one when its body begins.
FunctionEnvironment == Len(PaliPrologue(GeneratorState, nodes[node_cursor + 1]).envs)

\* The generator state g with only the Environments up to the function's
\* own: the state of a reference written directly in the function body.
InFunctionBody(g) == [g EXCEPT !.envs = SubSeq(@, 1, FunctionEnvironment)]

\* C26: for a variable of a function's own Environment that no inner block
\* declares again, get_variable returns the same displacement at every
\* depth of conditionals and parenthesized blocks inside the function as
\* directly in the function body, and the displacement is not negative.
C26_DisplacementIndependentOfDepth ==
    PaliNext =>
        \A g \in FunctionStates : \A name \in VariableNames :
            FirstBinding(g.envs, Len(g.envs), name) = FunctionEnvironment =>
                /\ get_variable(g, name).offset
                       = get_variable(InFunctionBody(g), name).offset
                /\ get_variable(g, name).offset >= 0


(***************************************************************************)
(* Functions known to the Scope.                                           *)
(***************************************************************************)
\* The nodes are definitions and declarations of functions without
\* parameters, calls without arguments and returns without a value, so
\* that nothing but a call of an unknown function can stop the generator.
RECURSIVE OnlyCallsAndFunctions(_)
OnlyCallsAndFunctions(body) ==
    \A i \in 1..Len(body) :
        \/ body[i].k = "O" /\ Len(body[i].params) = 0
        \/ body[i].k = "PaliDeclaration" /\ Len(body[i].params) = 0
        \/ body[i].k = "OWeka" /\ Len(body[i].expr) = 0
        \/ /\ body[i].k = "Pali"
           /\ Len(body[i].params) = 0
           /\ OnlyCallsAndFunctions(body[i].nodes)

\* The statements of a body read in the order of generation with the set
\* `known` of the functions defined or declared so far: a function is
\* known from the start of its definition on and for ever, a return ends
\* the body it stands in, a call of a function not known yet is refused.
RECURSIVE CallsKnown(_, _, _)
RECURSIVE CallsKnownAfter(_, _, _)
CallsKnown(body, i, known) ==
    IF i > Len(body) THEN [ok |-> TRUE, known |-> known]
    ELSE CASE body[i].k = "OWeka" -> [ok |-> TRUE, known |-> known]
           [] body[i].k = "O" ->
                  IF body[i].nimi \in known THEN CallsKnown(body, i + 1, known)
                  ELSE [ok |-> FALSE, known |-> known]
           [] body[i].k = "PaliDeclaration" ->
                  CallsKnown(body, i + 1, known \cup {body[i].nimi})
           [] body[i].k = "Pali" ->
                  CallsKnownAfter(body, i,
                                  CallsKnown(body[i].nodes, 1, known \cup {body[i].nimi}))
           [] OTHER -> CallsKnown(body, i + 1, known)

CallsKnownAfter(body, i, inner) ==
    IF inner.ok THEN CallsKnown(body, i + 1, inner.known) ELSE inner

\* The generator has returned or has stopped on a fatal error.
GenerateEnded == phase = "generated" \/ (phase = "panic" /\ fault = "generate")

\* C23: a function is in Scope.functions from the start of the generation
\* of its definition or declaration and is never removed: a program of
\* functions and calls is generated to the end exactly when every call
\* generated, a call of f inside the body of f included, comes after the
\* start of the definition or declaration of its callee, and is stopped by
\* a fatal error otherwise.
C23_FunctionKnownFromItsStart ==
    /\ [](GenerateEnded /\ OnlyCallsAndFunctions(nodes) =>
              ((phase = "generated") <=> CallsKnown(nodes, 1, {}).ok))
    /\ [][DOMAIN scope.functions \subseteq DOMAIN scope'.functions]_vars

\* A program of functions and calls has been generated to the end, in it
\* a function that calls itself in its body.
C23_Witness ==
    /\ phase = "generated"
    /\ OnlyCallsAndFunctions(nodes)
    /\ \E n \in 1..Len(nodes) :
           /\ nodes[n].k = "Pali"
           /\ \E i \in 1..Len(nodes[n].nodes) :
                  nodes[n].nodes[i].k = "O" /\ nodes[n].nodes[i].nimi = nodes[n].nimi

\* A call of a function defined only after it has stopped the generator.
C23_Refused ==
    /\ phase = "panic"
    /\ fault = "generate"
    /\ OnlyCallsAndFunctions(nodes)
    /\ nodes[node_cursor + 1].k = "O"
    /\ \E n \in (node_cursor + 2)..Len(nodes) :
           nodes[n].k \in {"Pali", "PaliDeclaration"}
               /\ nodes[n].nimi = nodes[node_cursor + 1].nimi


(***************************************************************************)
(* Every node the generator generates, with the state it is generated in.  *)
(***************************************************************************)
IsBlock(node) == node.k \in {"Pali", "Tenpo", "Parenthesis"}

\* The state in which the body of a block begins.
BlockPrologue(g, node) ==
    CASE node.k = "Pali" -> PaliPrologue(g, node)
      [] node.k = "Tenpo" -> TenpoPrologue(g, node)
      [] node.k = "Parenthesis" -> new_scope(Emit(g, BlankLine))

RECURSIVE NodeRuns(_, _, _, _)
RECURSIVE NodeRunsAfter(_, _, _, _)
NodeRuns(g, body, i, breaks) ==
    IF g.st # "ok" \/ i > Len(body) THEN {}
    ELSE {[g |-> g, node |-> body[i]]}
             \cup (IF IsBlock(body[i])
                   THEN NodeRuns(BlockPrologue(g, body[i]), body[i].nodes, 1,
                                 body[i].k # "Parenthesis")
                   ELSE {})
             \cup NodeRunsAfter(generate_node(g, body[i]), body, i, breaks)

NodeRunsAfter(next, body, i, breaks) ==
    IF next.st # "ok" \/ (breaks /\ next.ret) THEN {}
    ELSE NodeRuns(next, body, i + 1, breaks)

\* Generator::generate is about to generate nodes[node_cursor + 1].
NodeNext ==
    /\ phase = "generate"
    /\ writer # <<>>
    /\ node_cursor < Len(nodes)

\* The top-level node generated next and the nodes inside it.
NextNodeRuns == NodeRuns(GeneratorState, <<nodes[node_cursor + 1]>>, 1, TRUE)

\* Generating the node in g, if it does not abort, leaves as many
\* Environments as there were, the outer ones with the names they had.
DepthKept(g, node, after) ==
    after.st = "ok" =>
        /\ Len(after.envs) = Len(g.envs)
        /\ Len(after.envs) >= 1
        /\ \A e \in 1..(Len(g.envs) - 1) : after.envs[e].names = g.envs[e].names

\* C24: generating a node that does not abort leaves the stack of
\* Environments at the depth it had before the node; the body of a function
\* definition, a conditional or a parenthesized block is generated with
\* one Environment more, which is popped also when a return cut the body
\* short; the outermost Environment is never popped.
C24_EnvironmentDepthKept ==
    NodeNext =>
        \A r \in NextNodeRuns :
            /\ DepthKept(r.g, r.node, generate_node(r.g, r.node))
            /\ IsBlock(r.node) /\ BlockPrologue(r.g, r.node).st = "ok" =>
                   Len(BlockPrologue(r.g, r.node).envs) = Len(r.g.envs) + 1

\* A function was generated in whose body a conditional, its body cut
\* short by a return, is followed by another statement.
C24_Witness ==
    /\ phase \in {"generate", "generated"}
    /\ node_cursor >= 1
    /\ nodes[node_cursor].k = "Pali"
    /\ Len(scope.envs) = 1
    /\ \E i \in 1..(Len(nodes[node_cursor].nodes) - 1) :
           /\ nodes[node_cursor].nodes[i].k = "Tenpo"
           /\ \E j \in 1..Len(nodes[node_cursor].nodes[i].nodes) :
                  nodes[node_cursor].nodes[i].nodes[j].k = "OWeka"


(***************************************************************************)
(* Leading-tab words of the lexer.                                         *)
(***************************************************************************)
\* The character p of the text (from 1) is a tab at the start of the text or
\* right after a newline.
StartsLine(buf, p) == buf[p] = TAB /\ (p = 1 \/ buf[p - 1] = NL)

\* The length of the longest run of tabs that begins at character p.
TabRun(buf, p) ==
    CHOOSE n \in 1..(Len(buf) - p + 1) :
        /\ \A q \in p..(p + n - 1) : buf[q] = TAB
        /\ p + n > Len(buf) \/ buf[p + n] # TAB

\* The lengths of the runs of tabs that begin a line among the characters
\* p..upto of the text, in the order of the text.
RECURSIVE LeadingTabRuns(_, _, _)
LeadingTabRuns(buf, p, upto) ==
    IF p > upto THEN <<>>
    ELSE IF StartsLine(buf, p)
    THEN <<TabRun(buf, p)>> \o LeadingTabRuns(buf, p + TabRun(buf, p), upto)
    ELSE LeadingTabRuns(buf, p + 1, upto)

\* The counts of the leading-tab words among ws, in their order.
RECURSIVE TabCounts(_)
TabCounts(ws) ==
    IF Len(ws) = 0 THEN <<>>
    ELSE (IF IsOpeningTab(Head(ws)) THEN <<Head(ws).n>> ELSE <<>>) \o TabCounts(Tail(ws))

\* C25: the leading-tab words the lexer has pushed are, in order, one for
\* every run of tabs of the text read so far that begins at the start of the
\* text or right after a newline, each with the length of the whole run; no
\* other tab gives a word.
C25_LeadingTabWords ==
    TabCounts(words) = LeadingTabRuns(buffer, 1, current_position)

\* The lexer has returned on a text that has a run of two tabs after a
\* newline.
C25_Witness ==
    /\ phase = "tokenize"
    /\ \E p \in 2..Len(buffer) :
           buffer[p - 1] = NL /\ StartsLine(buffer, p) /\ TabRun(buffer, p) = 2
    /\ \E w \in 1..Len(words) : IsOpeningTab(words[w]) /\ words[w].n = 2

\* The lexer has returned on a text with a tab after another character of
\* its line, and pushed no leading-tab word.
C25_InnerTab ==
    /\ phase = "tokenize"
    /\ \E p \in 2..Len(buffer) : buffer[p] = TAB /\ buffer[p - 1] \notin {TAB, NL}
    /\ TabCounts(words) = <<>>


(***************************************************************************)
(* Expressions and the stack_pointer.                                      *)
(***************************************************************************)
\* The expression of the statement, in a sequence: none for a statement
\* without one.
ExpressionOf(node) ==
    CASE node.k = "OWeka" -> node.expr
      [] node.k = "LiKamaSama" -> <<node.expression>>
      [] OTHER -> <<>>

\* The expression and the expressions in it.
RECURSIVE SubExpressions(_)
SubExpressions(expression) ==
    IF expression.k = "Binary"
    THEN {expression} \cup SubExpressions(expression.lhs) \cup SubExpressions(expression.rhs)
    ELSE {expression}

TopStackPointer(g) == g.envs[Len(g.envs)].stack_pointer

\* Generating the expression in g, if it does not abort, leaves one value
\* of the size of its type more on the stack.
LeavesOneResult(g, expression, after, size) ==
    after.st = "ok" =>
        /\ size.st = "ok"
        /\ TopStackPointer(after) = TopStackPointer(g) + size.size

IsReturn(node) == node.k \in {"Otawa", "OWeka"}

\* The lines that begin what is written for a function definition, a
\* declaration, a call statement and a variable declaration.
IsNodeLine(line) ==
    \/ line.op \in {"public", "extrn", "call"}
    \/ line.op = ";" /\ line.src = "new"

NodeLines(out) == Cardinality({ p \in 1..Len(out) : IsNodeLine(out[p]) })

\* The number of such nodes from body[i] on that are generated when a
\* return ends the body it stands in and nothing else: the loop of a
\* function body, of a conditional and of the program breaks at the first
\* return, the loop of a parenthesized block does not.
RECURSIVE NodesGenerated(_, _, _)
NodesGenerated(body, i, breaks) ==
    IF i > Len(body) THEN 0
    ELSE IF IsReturn(body[i])
    THEN IF breaks THEN 0 ELSE NodesGenerated(body, i + 1, breaks)
    ELSE (IF body[i].k \in {"Pali", "PaliDeclaration", "O", "OSin"} THEN 1 ELSE 0)
             + (IF IsBlock(body[i])
                THEN NodesGenerated(body[i].nodes, 1, body[i].k # "Parenthesis")
                ELSE 0)
             + NodesGenerated(body, i + 1, breaks)

\* C28: Generator::generate stops at the first top-level node that is a
\* return: when it has ended without a fatal error no node before the last
\* generated one is a top-level return, it stopped before the end of the
\* program only on a return, and nothing was written for the nodes after
\* it; a return inside a function body or a conditional ends only that
\* body, so that what was written is exactly what the nodes up to the first
\* top-level return give when each return ends its own body.
C28_StopsAtTopLevelReturn ==
    phase = "generated" =>
        /\ \A j \in 1..(node_cursor - 1) : ~IsReturn(nodes[j])
        /\ node_cursor < Len(nodes) => IsReturn(nodes[node_cursor])
        /\ NodeLines(writer) = NodesGenerated(nodes, 1, TRUE)

\* The generator has stopped at a top-level return that a function
\* definition follows.
C28_Witness ==
    /\ phase = "generated"
    /\ node_cursor >= 1
    /\ IsReturn(nodes[node_cursor])
    /\ \E j \in (node_cursor + 1)..Len(nodes) : nodes[j].k = "Pali"

\* After a function whose body a return ended, a conditional included, the
\* generator has gone on to the next top-level node.
C28_GoesOn ==
    /\ phase = "generated"
    /\ \E j \in 1..(node_cursor - 1) :
           /\ nodes[j].k \in {"Pali", "Tenpo"}
           /\ \E i \in 1..Len(nodes[j].nodes) : IsReturn(nodes[j].nodes[i])
           /\ nodes[j + 1].k \in {"O", "OSin"}

=============================================================================
